---- MODULE Spec2Model ----
(***************************************************************************)
(* State-machine model of the WebSocket gateway of node-aion-proxy-server:  *)
(* class WebSocketProxy (src/unnamed/part_000, lines 869-1462).             *)
(*                                                                         *)
(* One upgrade session is modelled: the 'upgrade' listener, the closure    *)
(* handleWebSocketUpgrade/attemptConnection with its per-session counter   *)
(* `retries` and its per-attempt flags, and the relay session built by     *)
(* establishWebSocketProxy.  Every Node.js callback is one atomic action   *)
(* (the event loop runs a callback to completion).  The `ws` objects and   *)
(* the inbound net.Socket are the environment: their readyState and the    *)
(* events they emit are modelled only as far as the code reads them.       *)
(*                                                                         *)
(* class Proxy (lines 11-493) runs the same upgrade and relay code; it     *)
(* differs in forwardMessage, which sends data.toString().  obs.class      *)
(* names the class constructed, and the relay specifications cover both.   *)
(* The second class Proxy of the file (lines 544-835), which makes one      *)
(* attempt per session, is modelled by the Plain... definitions.            *)
(***************************************************************************)
EXTENDS Naturals, Integers, Sequences, FiniteSets, TLC

\* ------------------------------------------------------------------ bounds
\* Largest maxRetries value a configuration names (0 .. MaxCfgRetries).
MaxCfgRetries == 1
\* Keepalive ticks observed per relay session.
MaxTicks == 2
\* Messages received per direction of a relay session.
MaxMsgs == 2
\* Tokens of a request path.
MaxPath == 3
\* Entries of a route table.
MaxRoutes == 2
\* Events a test harness signals on one outbound connection outside the
\* life cycle of `ws` (a second 'open', an event after the connection failed).
MaxInject == 1

\* ------------------------------------------------------- program constants
\* `config.maxRetries || 3`
DefaultMaxRetries == 3

\* ------------------------------------------------------------ environment
\* Values a configuration record gives for maxRetries (0 behaves as a record
\* without the key: both are falsy).
CfgRetries == 0..MaxCfgRetries

\* Error objects the outbound `ws` connection can raise.  `code` is
\* error.code; `m401` says error.message contains "401" or "403"; `mUnexp`
\* says it contains "Unexpected server response".
Err(code, m401, mUnexp) == [code |-> code, m401 |-> m401, mUnexp |-> mUnexp]
ErrRefused       == Err("ECONNREFUSED", FALSE, FALSE)  \* connect ECONNREFUSED 10.0.0.5:8080
ErrRefusedAddr   == Err("ECONNREFUSED", TRUE,  FALSE)  \* connect ECONNREFUSED 10.0.0.5:4010
ErrNotFound      == Err("ENOTFOUND",    FALSE, FALSE)  \* getaddrinfo ENOTFOUND host
ErrTimedOut      == Err("ETIMEDOUT",    FALSE, FALSE)  \* connect ETIMEDOUT
ErrUnexpected    == Err("none",         FALSE, TRUE)   \* Unexpected server response: 503
ErrRejected      == Err("none",         TRUE,  TRUE)   \* Unexpected server response: 401
ErrReset         == Err("ECONNRESET",   FALSE, FALSE)  \* read ECONNRESET
ErrOther         == Err("none",         FALSE, FALSE)  \* Opening handshake has timed out
Errors == {ErrRefused, ErrRefusedAddr, ErrNotFound, ErrTimedOut, ErrUnexpected,
           ErrRejected, ErrReset, ErrOther}
\* Errors an established connection raises.
PostOpenErrors == {ErrReset, ErrTimedOut, ErrOther}
\* The error `ws` raises for close() on a connection still CONNECTING.
AbortErrors == {ErrOther}

\* The four connection-class errors of the specification, as the target
\* raises them (message without a "401"/"403" digit run).
ConnectionClassErrors == {ErrRefused, ErrNotFound, ErrTimedOut, ErrUnexpected}

\* Close frames a peer can deliver: (code, reason).  1005 is what `ws`
\* reports for a close frame without a status code, 1006 for a dropped
\* connection; both come with an empty reason.
CloseEvents == {<<1000, "bye">>, <<1000, "">>, <<4000, "bye">>, <<1005, "">>, <<1006, "">>}

\* Message payloads: two texts and a binary frame whose bytes are not valid
\* UTF-8.
Payloads == {"m1", "m2", "bin"}

VARIABLES
  phase,       \* "listening" | "session" | "rejected" | "exited"
  maxRetries,  \* this.maxRetries
  retries,     \* let retries (one per handleWebSocketUpgrade call)
  pending,     \* delays (in units of retryDelay) of the retry timers not yet run
  att,         \* the attemptConnection closures created so far
  socket,      \* the inbound net.Socket
  relay,       \* the sessions built by establishWebSocketProxy
  obs          \* what an observer of the session has seen (history)

vars == <<phase, maxRetries, retries, pending, att, socket, relay, obs>>

\* ------------------------------------------------------------ library API
\* WebSocket.readyState as the code reads it.  "ABORTED" is a connection
\* closed while CONNECTING: readyState is CLOSING and `ws` still owes the
\* 'error' event "WebSocket was closed before the connection was established".
ReadyStates == {"CONNECTING", "OPEN", "CLOSING", "ABORTED", "CLOSED"}
IsOpen(rs)   == rs = "OPEN"
IsClosed(rs) == rs = "CLOSED"

\* Status codes WebSocket.close(code) accepts; any other number makes it
\* throw TypeError("First argument must be a valid error code number").
\* NoCode stands for close() called without a code.
NoCode == 0
ValidCloseCode(code) ==
  \/ code = NoCode
  \/ (code >= 1000 /\ code <= 1014 /\ code \notin {1004, 1005, 1006})
  \/ (code >= 3000 /\ code <= 4999)

\* readyState after WebSocket.close() returns.
AfterClose(rs) ==
  CASE rs = "CONNECTING" -> "ABORTED"
    [] rs = "OPEN"       -> "CLOSING"
    [] OTHER             -> rs

\* close(code, reason) throws only when a close frame is built (OPEN).
CloseThrows(rs, code) == rs = "OPEN" /\ ~ValidCloseCode(code)

\* --------------------------------------------------------------- records
\* The inbound net.Socket: `written` lists the status lines passed to
\* socket.write, `wire` those that left on the connection.
NewSocket == [destroyed |-> FALSE, ended |-> FALSE, written |-> <<>>, wire |-> <<>>,
              upgraded |-> 0,
              \* history: 'error' was raised before any upgrade; the calls
              \* of attemptConnection made by then
              erred |-> FALSE, callsAtError |-> 0]

\* socket.write('HTTP/1.1 <status> ...'); socket.destroy();
\* a write to a destroyed stream puts nothing on the wire.
WriteAndDestroy(s, status) ==
  [s EXCEPT !.written = Append(@, status),
            !.wire = IF s.destroyed THEN @ ELSE Append(@, status),
            !.destroyed = TRUE]

\* socket.destroy()
Destroy(s) == [s EXCEPT !.destroyed = TRUE]

\* The closure state of one attemptConnection call after its try block.
NewAttempt ==
  [ws |-> "CONNECTING", timer |-> "armed", isUpgraded |-> FALSE,
   connectionClosed |-> FALSE, clientWs |-> 0,
   closeCalls |-> <<>>,
   \* history: 'open' was signalled; the class of the first 'error' that met
   \* the attempt in flight (not abandoned, not upgraded); harness events
   \* a handler of the attempt scheduled the next try
   opened |-> FALSE, failure |-> "none", failedLive |-> FALSE, injected |-> 0,
   retried |-> FALSE]

\* clearTimeout(connectionTimeout)
ClearTimeout(t) == IF t = "armed" THEN "cleared" ELSE t

\* if (targetWs.readyState !== WebSocket.CLOSED) targetWs.close();
CloseTarget(a) ==
  IF IsClosed(a.ws) THEN a
  ELSE [a EXCEPT !.ws = AfterClose(@),
                 !.closeCalls = Append(@, <<NoCode, "">>)]

\* The state establishWebSocketProxy leaves behind.
NewRelay(t, established) ==
  [t |-> t, cws |-> "OPEN", established |-> established,
   isProxyActive |-> established,
   clientToTarget |-> 0, targetToClient |-> 0,
   \* the one counter of the Proxy class without retries
   messageCount |-> 0,
   logged |-> 0, interval |-> IF established THEN "armed" ELSE "none", ticks |-> 0,
   pingsTarget |-> 0, pingsClient |-> 0,
   cCloseCalls |-> <<>>,
   \* history: the 'close' event each side delivered, as
   \* <<code, reason, other side open, close calls on the other side before>>
   clientClosed |-> <<>>, targetClosed |-> <<>>,
   \* history: the first 'error' of the target side, as
   \* <<error.code, session active and client open, close calls on the client before>>
   targetError |-> <<>>,
   inClient |-> <<>>, inTarget |-> <<>>,
   sentTarget |-> <<>>, sentClient |-> <<>>]


\* ------------------------------------------------------------------ Init
\* this.maxRetries = config.maxRetries || 3
ConfiguredRetries(cfg) == IF cfg = 0 THEN DefaultMaxRetries ELSE cfg

\* The state after `new WebSocketProxy(config)` / `new Proxy(config)`.
\* obs.class names the class that was constructed: the two share the upgrade
\* and relay code and differ in how forwardMessage hands the payload to send.
InitFor(cfgs, classes) ==
  /\ phase = "listening"
  /\ \E c \in cfgs, k \in classes :
       /\ maxRetries = ConfiguredRetries(c)
       /\ obs = [class |-> k, cfg |-> c, badUrl |-> FALSE, calls |-> 0, only |-> "none"]
  /\ retries = 0
  /\ pending = <<>>
  /\ att = <<>>
  /\ socket = NewSocket
  /\ relay = <<>>

Init == InitFor(CfgRetries, {"WebSocketProxy"})

\* --------------------------------------------------- handlers (the code)
\* The mutable state a callback reads and writes, as one value, so that the
\* handlers an event runs in sequence compose.
Cur == [phase |-> phase, retries |-> retries, pending |-> pending,
        att |-> att, socket |-> socket, relay |-> relay]

\* An exception that leaves a callback reaches
\* process.on('uncaughtException'), which calls process.exit(1).
Crash(s) == [s EXCEPT !.phase = "exited"]
Alive(s) == s.phase # "exited"

\* A retry whose delay is computed before the counter is incremented.
ScheduleRetry_DelayFirst(s) ==
  [s EXCEPT !.retries = @ + 1, !.pending = Append(@, s.retries)]

\* A retry that is scheduled without being counted.
ScheduleRetry_Uncounted(s) ==
  [s EXCEPT !.pending = Append(@, s.retries + 1)]

\* retries++; setTimeout(() => attemptConnection(), this.retryDelay * retries);
ScheduleRetry(s) ==
  [s EXCEPT !.retries = @ + 1, !.pending = Append(@, s.retries + 1)]

\* An attemptConnection that upgrades the client before it dials the target.
AttemptConnection_UpgradeFirst(s, throws) ==
  IF throws
  THEN IF s.retries < maxRetries
       THEN ScheduleRetry(s)
       ELSE [s EXCEPT !.socket = WriteAndDestroy(@, 502)]
  ELSE IF s.socket.upgraded = 0 /\ ~s.socket.destroyed /\ ~s.socket.ended
  THEN [s EXCEPT !.socket.upgraded = 1,
                 !.att = Append(@, [NewAttempt EXCEPT !.isUpgraded = TRUE,
                                                      !.clientWs = Len(s.relay) + 1]),
                 !.relay = Append(@, NewRelay(Len(s.att) + 1, TRUE))]
  ELSE [s EXCEPT !.att = Append(@, NewAttempt)]

\* attemptConnection: `throws` says that the try block threw before any
\* handler was registered (new WebSocket rejects the URL or the protocol).
AttemptConnection(s, throws) ==
  IF throws
  THEN IF s.retries < maxRetries
       THEN ScheduleRetry(s)
       ELSE [s EXCEPT !.socket = WriteAndDestroy(@, 502)]
  ELSE [s EXCEPT !.att = Append(@, NewAttempt)]

\* A timeout callback whose budget test is `retries <= this.maxRetries`.
OnConnectionTimeout_OffByOne(s, a) ==
  LET A == s.att[a] IN
  IF ~A.isUpgraded /\ ~A.connectionClosed
  THEN IF s.retries <= maxRetries
       THEN ScheduleRetry([s EXCEPT !.att[a].connectionClosed = TRUE])
       ELSE [s EXCEPT !.socket = WriteAndDestroy(@, 504),
                      !.att[a] = CloseTarget([A EXCEPT !.connectionClosed = TRUE])]
  ELSE s

\* The connectionTimeout callback of attempt a.
OnConnectionTimeout(s, a) ==
  LET A == s.att[a] IN
  IF ~A.isUpgraded /\ ~A.connectionClosed
  THEN IF s.retries < maxRetries
       THEN ScheduleRetry([s EXCEPT !.att[a].connectionClosed = TRUE])
       ELSE [s EXCEPT !.socket = WriteAndDestroy(@, 504),
                      !.att[a] = CloseTarget([A EXCEPT !.connectionClosed = TRUE])]
  ELSE s

\* What wss.handleUpgrade(request, socket, head, cb) can do with the socket:
\* it destroys a socket that is no longer readable and writable and returns
\* ("aborted"); otherwise it completes the handshake and calls cb
\* ("callback").  For a socket that already carries a WebSocket the `ws`
\* build decides: it throws or it upgrades again.
HandleUpgradeOutcomes(sock) ==
  IF sock.destroyed \/ sock.ended THEN {"aborted"}
  ELSE IF sock.upgraded > 0 THEN {"callback", "throws"}
  ELSE {"callback"}

\* establishWebSocketProxy returns early, registering nothing, when one of
\* the two connections is already CLOSED.
Establishes(targetState) == ~IsClosed(targetState)

\* targetWs.on('open') of attempt a.
OnTargetOpen(s, a, outcome) ==
  LET A == s.att[a] IN
  IF A.connectionClosed THEN s
  ELSE LET s1 == [s EXCEPT !.att[a].timer = ClearTimeout(@)] IN
       IF A.isUpgraded THEN s1
       ELSE CASE outcome = "aborted" ->
                   [s1 EXCEPT !.socket = Destroy(@)]
              [] outcome = "throws" ->
                   [s1 EXCEPT !.socket = Destroy(@),
                              !.att[a] = CloseTarget([@ EXCEPT !.connectionClosed = TRUE])]
              [] OTHER ->
                   [s1 EXCEPT !.socket.upgraded = @ + 1,
                              !.att[a].clientWs = Len(s.relay) + 1,
                              !.att[a].isUpgraded = TRUE,
                              !.relay = Append(@, NewRelay(a, Establishes(A.ws)))]

\* clientWs.close(code, reason) on the client connection of session r.
ClientCloseCall(s, r, code, reason) ==
  IF CloseThrows(s.relay[r].cws, code) THEN Crash(s)
  ELSE [s EXCEPT !.relay[r].cws = AfterClose(@),
                 !.relay[r].cCloseCalls = Append(@, <<code, reason>>)]

\* targetWs.close(code, reason) on the outbound connection of attempt a.
TargetCloseCall(s, a, code, reason) ==
  IF CloseThrows(s.att[a].ws, code) THEN Crash(s)
  ELSE [s EXCEPT !.att[a].ws = AfterClose(@),
                 !.att[a].closeCalls = Append(@, <<code, reason>>)]

\* A classifier that knows no authentication errors.
IsAuthError_Never(e) == FALSE

\* error.message.includes('401') || error.message.includes('403')
IsAuthError(e) == e.m401

\* isTemporaryError
IsTemporaryError(e) ==
  \/ e.code = "ECONNREFUSED"
  \/ e.code = "ENOTFOUND"
  \/ e.code = "ETIMEDOUT"
  \/ e.mUnexp

\* targetWs.on('error') registered by attemptConnection (attempt a).
OnTargetError(s, a, e) ==
  LET A == s.att[a] IN
  IF A.connectionClosed THEN s
  ELSE LET s1 == [s EXCEPT !.att[a].timer = ClearTimeout(@)] IN
       IF IsAuthError(e)
       THEN LET s2 == [s1 EXCEPT !.att[a].connectionClosed = TRUE] IN
            IF ~A.isUpgraded
            THEN [s2 EXCEPT !.socket = WriteAndDestroy(@, 401)]
            ELSE s2
       ELSE IF IsTemporaryError(e) /\ s.retries < maxRetries /\ ~A.isUpgraded
       THEN ScheduleRetry(s1)
       ELSE LET s2 == [s1 EXCEPT !.att[a].connectionClosed = TRUE] IN
            IF ~A.isUpgraded
            THEN [s2 EXCEPT !.socket = WriteAndDestroy(@, 502)]
            ELSE IF A.clientWs # 0 /\ IsOpen(s.relay[A.clientWs].cws)
            THEN ClientCloseCall(s2, A.clientWs,
                                 IF e.code = "ECONNREFUSED" THEN 1006 ELSE 1011,
                                 "Target server connection error")
            ELSE s2

\* socket.on('error') registered by attemptConnection (attempt a).
OnSocketError(s, a) ==
  LET A == s.att[a] IN
  IF A.connectionClosed THEN s
  ELSE [s EXCEPT !.att[a] = CloseTarget([A EXCEPT !.timer = ClearTimeout(@),
                                                  !.connectionClosed = TRUE])]

\* ------------------------------------------------- relay session handlers
\* A cleanup without the isProxyActive test.
Cleanup_Unguarded(R) == [R EXCEPT !.logged = @ + 1, !.isProxyActive = FALSE]

\* cleanup(reason): the summary is logged and the flag cleared, once.
Cleanup(R) ==
  IF R.isProxyActive
  THEN [R EXCEPT !.logged = @ + 1, !.isProxyActive = FALSE]
  ELSE R

\* const reasonStr = reason ? reason.toString() : 'no reason';
\* An empty reason is falsy when `ws` delivers it as a string and truthy
\* when it delivers a Buffer: `emptyAs` is what the build makes of it.
ReasonStr(reason, emptyAs) == IF reason = "" THEN emptyAs ELSE reason
EmptyReasonOutcomes == {"", "no reason"}

\* code || 1000
CodeOrNormal(code) == IF code = 0 THEN 1000 ELSE code

\* targetWs.on('close') of session r.
OnRelayTargetClose(s, r, code, reason, emptyAs) ==
  LET s1 == [s EXCEPT !.relay[r] = Cleanup(@)] IN
  IF IsOpen(s.relay[r].cws)
  THEN ClientCloseCall(s1, r, CodeOrNormal(code), ReasonStr(reason, emptyAs))
  ELSE s1

\* clientWs.on('close') of session r.
OnRelayClientClose(s, r, code, reason, emptyAs) ==
  LET s1 == [s EXCEPT !.relay[r] = Cleanup(@)] IN
  IF IsOpen(s.att[s.relay[r].t].ws)
  THEN TargetCloseCall(s1, s.relay[r].t, CodeOrNormal(code), ReasonStr(reason, emptyAs))
  ELSE s1

\* clientWs.on('error') of session r.
OnRelayClientError(s, r) ==
  LET s1 == [s EXCEPT !.relay[r] = Cleanup(@)] IN
  IF IsOpen(s.att[s.relay[r].t].ws)
  THEN TargetCloseCall(s1, s.relay[r].t, 1011, "Client connection error")
  ELSE s1

\* The close code the relay's target 'error' handler picks.
TranslateError(e) ==
  IF e.code = "ECONNRESET" THEN 1006
  ELSE IF e.code = "ETIMEDOUT" THEN 1001
  ELSE 1011

\* targetWs.on('error') registered by establishWebSocketProxy (session r).
OnRelayTargetError(s, r, e) ==
  LET s1 == [s EXCEPT !.relay[r] = Cleanup(@)] IN
  IF IsOpen(s.relay[r].cws)
  THEN ClientCloseCall(s1, r, TranslateError(e), "Target error")
  ELSE s1

\* data.toString() followed by send(string): the bytes of a text survive the
\* round trip through a string, bytes that are not valid UTF-8 come back as
\* U+FFFD replacement characters.
ToStringBytes(data) == IF data = "bin" THEN "bin-replaced" ELSE data

\* The argument forwardMessage passes to send: WebSocketProxy sends `data`,
\* Proxy sends `data.toString()`.
SendArgument(class, data) ==
  IF class = "Proxy" THEN ToStringBytes(data) ELSE data

\* forwardMessage(from, to, data, direction): `send` is what to.send(data)
\* does, "ok", "epipe" (throws EPIPE / "not connected") or "fails" (throws
\* something else).
SendOutcomes == {"ok", "epipe", "fails"}

\* A forwardMessage that sends whatever the session and the destination
\* are in.
ForwardClientToTarget_Unguarded(s, r, data, send) ==
  LET R == s.relay[r] IN
  CASE send = "ok" ->
         [s EXCEPT !.relay[r].sentTarget = Append(@, SendArgument(obs.class, data)),
                   !.relay[r].clientToTarget = @ + 1]
    [] send = "epipe" ->
         LET s1 == [s EXCEPT !.relay[r] = Cleanup(@)] IN
         IF IsOpen(R.cws)
         THEN ClientCloseCall(s1, r, 1006, "Connection lost")
         ELSE s1
    [] OTHER -> s

ForwardClientToTarget(s, r, data, send) ==
  LET R == s.relay[r] IN
  IF ~R.isProxyActive THEN s
  ELSE IF ~IsOpen(s.att[R.t].ws) THEN s
  ELSE CASE send = "ok" ->
              [s EXCEPT !.relay[r].sentTarget = Append(@, SendArgument(obs.class, data)),
                        !.relay[r].clientToTarget = @ + 1]
         [] send = "epipe" ->
              LET s1 == [s EXCEPT !.relay[r] = Cleanup(@)] IN
              IF IsOpen(R.cws)
              THEN ClientCloseCall(s1, r, 1006, "Connection lost")
              ELSE s1
         [] OTHER -> s

\* A forwardMessage that does not test the destination's readyState.
ForwardTargetToClient_NoReadyTest(s, r, data, send) ==
  LET R == s.relay[r] IN
  IF ~R.isProxyActive THEN s
  ELSE CASE send = "ok" ->
              [s EXCEPT !.relay[r].sentClient = Append(@, SendArgument(obs.class, data)),
                        !.relay[r].targetToClient = @ + 1]
         [] send = "epipe" ->
              LET s1 == [s EXCEPT !.relay[r] = Cleanup(@)] IN
              IF IsOpen(s.att[R.t].ws)
              THEN TargetCloseCall(s1, R.t, 1006, "Connection lost")
              ELSE s1
         [] OTHER -> s

ForwardTargetToClient(s, r, data, send) ==
  LET R == s.relay[r] IN
  IF ~R.isProxyActive THEN s
  ELSE IF ~IsOpen(R.cws) THEN s
  ELSE CASE send = "ok" ->
              [s EXCEPT !.relay[r].sentClient = Append(@, SendArgument(obs.class, data)),
                        !.relay[r].targetToClient = @ + 1]
         [] send = "epipe" ->
              LET s1 == [s EXCEPT !.relay[r] = Cleanup(@)] IN
              IF IsOpen(s.att[R.t].ws)
              THEN TargetCloseCall(s1, R.t, 1006, "Connection lost")
              ELSE s1
         [] OTHER -> s

\* A pingInterval callback that pings the target only.
OnPingInterval_TargetOnly(s, r) ==
  LET R == s.relay[r] IN
  IF ~R.isProxyActive
  THEN [s EXCEPT !.relay[r].interval = "cleared"]
  ELSE [s EXCEPT !.relay[r].pingsTarget = IF IsOpen(s.att[R.t].ws) THEN @ + 1 ELSE @]

\* The pingInterval callback of session r.
OnPingInterval(s, r) ==
  LET R == s.relay[r] IN
  IF ~R.isProxyActive
  THEN [s EXCEPT !.relay[r].interval = "cleared"]
  ELSE [s EXCEPT !.relay[r].pingsTarget = IF IsOpen(s.att[R.t].ws) THEN @ + 1 ELSE @,
                 !.relay[r].pingsClient = IF IsOpen(R.cws) THEN @ + 1 ELSE @]

\* An 'upgrade' listener that does not test the resolved target.
OnUpgrade_Unchecked(s, found, bad) ==
  AttemptConnection([s EXCEPT !.phase = "session"], bad)

\* The 'upgrade' listener: `found` says getTargetForPath returned a truthy
\* target, `bad` that the outbound URL is one new WebSocket rejects.
OnUpgrade(s, found, bad) ==
  IF ~found
  THEN [s EXCEPT !.phase = "rejected", !.socket = WriteAndDestroy(@, 404)]
  ELSE AttemptConnection([s EXCEPT !.phase = "session"], bad)

\* ---------------------------------------------------------------- actions
Commit(s) ==
  /\ phase' = s.phase
  /\ retries' = s.retries
  /\ pending' = s.pending
  /\ att' = s.att
  /\ socket' = s.socket
  /\ relay' = s.relay

\* obs.only names the one kind of event the session has met so far
\* ("none" before the first, "mixed" once two kinds have been met).
Met(only, kind) == IF only = "none" \/ only = kind THEN kind ELSE "mixed"
Saw(kind) == obs' = [obs EXCEPT !.only = Met(@, kind)]

\* The class the specification gives an error of the outbound connection.
ErrTag(e) ==
  CASE e = ErrRejected -> "auth"
    [] e \in ConnectionClassErrors \cup {ErrRefusedAddr} -> "conn"
    [] OTHER -> "other"

\* The attempt record with the error noted (history only).
NoteFailure(A, e) ==
  IF A.failedLive \/ A.connectionClosed \/ A.isUpgraded THEN A
  ELSE [A EXCEPT !.failure = ErrTag(e), !.failedLive = TRUE]

\* State s1, reached from s0 by a handler of attempt a, with the retry the
\* handler scheduled noted (history only).
NoteRetry(s0, s1, a) ==
  IF s1.retries > s0.retries THEN [s1 EXCEPT !.att[a].retried = TRUE] ELSE s1

RemoveAt(q, i) == [j \in 1..(Len(q) - 1) |-> IF j < i THEN q[j] ELSE q[j + 1]]

\* server.on('upgrade'): `found` says getTargetForPath returned a target;
\* `bad` says the outbound URL or protocol is one new WebSocket rejects.
UpgradeRequest(found, bad) ==
  /\ phase = "listening"
  /\ Commit(OnUpgrade(Cur, found, bad))
  /\ IF ~found
     THEN UNCHANGED obs
     ELSE obs' = [obs EXCEPT !.badUrl = bad, !.calls = @ + 1,
                             !.only = IF bad THEN "throw" ELSE @]
  /\ UNCHANGED maxRetries

\* A retry timer set by setTimeout(() => attemptConnection(), ...) runs.
RetryTimer(i) ==
  /\ phase = "session"
  /\ i \in DOMAIN pending
  /\ Commit(AttemptConnection([Cur EXCEPT !.pending = RemoveAt(@, i)], obs.badUrl))
  /\ obs' = [obs EXCEPT !.calls = @ + 1]
  /\ UNCHANGED maxRetries

\* The connectionTimeout timer of attempt a runs.
ConnectionTimeout(a) ==
  /\ phase = "session"
  /\ a \in DOMAIN att
  /\ att[a].timer = "armed"
  /\ Commit(NoteRetry(Cur, OnConnectionTimeout([Cur EXCEPT !.att[a].timer = "fired"], a), a))
  /\ Saw("timeout")
  /\ UNCHANGED maxRetries

\* The outbound connection of attempt a completes its handshake.
TargetOpen(a, outcome) ==
  /\ phase = "session"
  /\ a \in DOMAIN att
  /\ att[a].ws = "CONNECTING"
  /\ outcome \in HandleUpgradeOutcomes(socket)
  /\ Commit(OnTargetOpen([Cur EXCEPT !.att[a].ws = "OPEN",
                                     !.att[a].opened = TRUE], a, outcome))
  /\ Saw("open")
  /\ UNCHANGED maxRetries

\* The handlers a 'error' event of attempt a's connection runs, in the order
\* they were registered: attemptConnection's, then the relay session's.
TargetErrorHandlers(s, a, e) ==
  LET s1 == OnTargetError(s, a, e)
      r  == s.att[a].clientWs
  IN  IF Alive(s1) /\ r # 0 /\ s.relay[r].established
      THEN OnRelayTargetError(s1, r, e)
      ELSE s1

\* The outbound connection of attempt a raises an error: a failed handshake
\* (the connection ends CLOSED), the abort of a connection closed while
\* CONNECTING, or an error on an established connection (left CLOSING).
TargetError(a, e) ==
  /\ phase = "session"
  /\ a \in DOMAIN att
  /\ \/ att[a].ws = "CONNECTING" /\ e \in Errors
     \/ att[a].ws = "ABORTED" /\ e \in AbortErrors
     \/ att[a].ws = "OPEN" /\ e \in PostOpenErrors
  /\ LET after == IF att[a].ws = "OPEN" THEN "CLOSING" ELSE "CLOSED"
         r  == att[a].clientWs
         sE == IF r # 0 /\ relay[r].established /\ relay[r].targetError = <<>>
               THEN [Cur EXCEPT !.relay[r].targetError =
                       <<e.code, relay[r].isProxyActive /\ IsOpen(relay[r].cws),
                         Len(relay[r].cCloseCalls)>>]
               ELSE Cur
         s0 == [sE EXCEPT !.att[a] = NoteFailure([@ EXCEPT !.ws = "CLOSING"], e)]
         s1 == TargetErrorHandlers(s0, a, e)
     IN  Commit(NoteRetry(Cur, [s1 EXCEPT !.att[a].ws = after], a))
  /\ Saw(ErrTag(e))
  /\ UNCHANGED maxRetries

\* The outbound connection of attempt a emits 'close' (code, reason).
TargetClose(a, ev, emptyAs) ==
  /\ phase = "session"
  /\ a \in DOMAIN att
  /\ att[a].ws \in {"OPEN", "CLOSING"}
  /\ LET r  == att[a].clientWs
         s0 == [Cur EXCEPT !.att[a].ws = "CLOSED"]
         s1 == IF r = 0 THEN s0
               ELSE [s0 EXCEPT !.relay[r].targetClosed =
                       <<ev[1], ev[2], IsOpen(relay[r].cws), Len(relay[r].cCloseCalls)>>]
     IN  Commit(IF r # 0 /\ relay[r].established
                THEN OnRelayTargetClose(s1, r, ev[1], ev[2], emptyAs)
                ELSE s1)
  /\ UNCHANGED <<maxRetries, obs>>

RECURSIVE SocketErrorHandlers(_, _)
\* The socket.on('error') listeners of attempts a, a+1, ... run in order.
\* While no attempt has registered one (new WebSocket threw in every try so
\* far) the 'error' event has no listener and is thrown.
SocketErrorHandlers(s, a) ==
  IF s.att = <<>> THEN Crash(s)
  ELSE IF a > Len(s.att) THEN s
  ELSE SocketErrorHandlers(OnSocketError(s, a), a + 1)

\* The inbound socket emits 'error': the stream is destroyed, every
\* registered listener runs, and a WebSocket riding on it goes CLOSING.
SocketError ==
  /\ phase = "session"
  /\ ~socket.destroyed
  /\ LET s0 == [Cur EXCEPT !.socket = Destroy(
                                 IF socket.upgraded = 0
                                 THEN [@ EXCEPT !.erred = TRUE, !.callsAtError = obs.calls]
                                 ELSE @)]
         s1 == SocketErrorHandlers(s0, 1)
     IN  Commit([s1 EXCEPT !.relay =
                   [r \in DOMAIN s1.relay |->
                      IF IsOpen(s1.relay[r].cws)
                      THEN [s1.relay[r] EXCEPT !.cws = "CLOSING"]
                      ELSE s1.relay[r]]])
  /\ Saw("sockerr")
  /\ UNCHANGED maxRetries

\* The client goes away before the upgrade without an 'error' event: the
\* socket is no longer readable.
InboundGone ==
  /\ phase = "session"
  /\ ~socket.destroyed /\ ~socket.ended /\ socket.upgraded = 0
  /\ socket' = [socket EXCEPT !.ended = TRUE]
  /\ Saw("gone")
  /\ UNCHANGED <<phase, maxRetries, retries, pending, att, relay>>

\* The client connection of session r emits 'close' (code, reason).
ClientClose(r, ev, emptyAs) ==
  /\ phase = "session"
  /\ r \in DOMAIN relay
  /\ relay[r].cws \in {"OPEN", "CLOSING"}
  /\ LET t  == relay[r].t
         s0 == [Cur EXCEPT !.relay[r].cws = "CLOSED", !.socket = Destroy(@),
                           !.relay[r].clientClosed =
                              <<ev[1], ev[2], IsOpen(att[t].ws), Len(att[t].closeCalls)>>]
     IN  Commit(IF relay[r].established
                THEN OnRelayClientClose(s0, r, ev[1], ev[2], emptyAs)
                ELSE s0)
  /\ UNCHANGED <<maxRetries, obs>>

\* The client connection of session r emits 'error' (a protocol error of the
\* client): the connection is left CLOSING.
ClientError(r) ==
  /\ phase = "session"
  /\ r \in DOMAIN relay
  /\ relay[r].cws = "OPEN"
  /\ LET s0 == [Cur EXCEPT !.relay[r].cws = "CLOSING"]
     IN  Commit(IF relay[r].established THEN OnRelayClientError(s0, r) ELSE Crash(s0))
  /\ UNCHANGED <<maxRetries, obs>>

Next ==
  \/ \E found \in BOOLEAN, bad \in BOOLEAN : UpgradeRequest(found, bad)
  \/ \E i \in DOMAIN pending : RetryTimer(i)
  \/ \E a \in DOMAIN att : ConnectionTimeout(a)
  \/ \E a \in DOMAIN att, o \in {"callback", "throws", "aborted"} : TargetOpen(a, o)
  \/ \E a \in DOMAIN att, e \in Errors : TargetError(a, e)
  \/ \E a \in DOMAIN att, ev \in CloseEvents, x \in EmptyReasonOutcomes : TargetClose(a, ev, x)
  \/ SocketError
  \/ InboundGone
  \/ \E r \in DOMAIN relay, ev \in CloseEvents, x \in EmptyReasonOutcomes : ClientClose(r, ev, x)
  \/ \E r \in DOMAIN relay : ClientError(r)

Spec == Init /\ [][Next]_vars

\* ------------------------------------------- relay traffic and keepalive
\* What an observer notes when a message arrives: the payload, whether the
\* session was active and the destination open, and whether all of this and
\* a send that succeeded came together.
Arrival(data, active, destOpen, send) ==
  [data |-> data, deliverable |-> active /\ destOpen /\ send = "ok",
   active |-> active, destOpen |-> destOpen]

\* clientWs.on('message') of session r.
ClientMessage(r, data, send) ==
  /\ phase = "session"
  /\ r \in DOMAIN relay
  /\ relay[r].established
  /\ relay[r].cws \in {"OPEN", "CLOSING"}
  /\ Len(relay[r].inClient) < MaxMsgs
  /\ LET R  == relay[r]
         s0 == [Cur EXCEPT !.relay[r].inClient =
                  Append(@, Arrival(data, R.isProxyActive, IsOpen(att[R.t].ws), send))]
     IN  Commit(ForwardClientToTarget(s0, r, data, send))
  /\ UNCHANGED <<maxRetries, obs>>

\* targetWs.on('message') of session r.
TargetMessage(r, data, send) ==
  /\ phase = "session"
  /\ r \in DOMAIN relay
  /\ relay[r].established
  /\ att[relay[r].t].ws \in {"OPEN", "CLOSING"}
  /\ Len(relay[r].inTarget) < MaxMsgs
  /\ LET R  == relay[r]
         s0 == [Cur EXCEPT !.relay[r].inTarget =
                  Append(@, Arrival(data, R.isProxyActive, IsOpen(R.cws), send))]
     IN  Commit(ForwardTargetToClient(s0, r, data, send))
  /\ UNCHANGED <<maxRetries, obs>>

\* The setInterval timer of session r ticks.
PingTick(r) ==
  /\ phase = "session"
  /\ r \in DOMAIN relay
  /\ relay[r].interval = "armed"
  /\ relay[r].ticks < MaxTicks
  /\ Commit(OnPingInterval([Cur EXCEPT !.relay[r].ticks = @ + 1], r))
  /\ UNCHANGED <<maxRetries, obs>>

\* Close frames observed in the relay specifications.
RelayCloseEvents == {<<1000, "bye">>, <<1005, "">>}

\* The gateway configured with maxRetries = 1 and a target that accepts or
\* fails the first attempt; the life of the relay session is observed.
InitRelay == InitFor({1}, {"WebSocketProxy", "Proxy"})

RelayLifeCycle ==
  \/ UpgradeRequest(TRUE, FALSE)
  \/ \E a \in DOMAIN att : TargetOpen(a, "callback")
  \/ \E a \in DOMAIN att, e \in PostOpenErrors : TargetError(a, e)
  \/ \E a \in DOMAIN att, ev \in RelayCloseEvents : TargetClose(a, ev, "")
  \/ \E r \in DOMAIN relay, ev \in RelayCloseEvents : ClientClose(r, ev, "")
  \/ \E r \in DOMAIN relay : ClientError(r)
  \/ SocketError

\* ... with the messages of both directions.
NextRelay ==
  \/ RelayLifeCycle
  \/ \E r \in DOMAIN relay, d \in Payloads, o \in SendOutcomes : ClientMessage(r, d, o)
  \/ \E r \in DOMAIN relay, d \in Payloads, o \in SendOutcomes : TargetMessage(r, d, o)

SpecRelay == InitRelay /\ [][NextRelay]_vars

\* ... with messages of one text payload in both directions: the flow of
\* messages through the guards of forwardMessage, whatever they carry.
NextTraffic ==
  \/ RelayLifeCycle
  \/ \E r \in DOMAIN relay, o \in SendOutcomes : ClientMessage(r, "m1", o)
  \/ \E r \in DOMAIN relay, o \in SendOutcomes : TargetMessage(r, "m1", o)

SpecTraffic == InitRelay /\ [][NextTraffic]_vars

\* ... with the keepalive timer.
NextKeepalive ==
  \/ RelayLifeCycle
  \/ \E r \in DOMAIN relay : PingTick(r)

SpecKeepalive == InitRelay /\ [][NextKeepalive]_vars

\* ------------------------------------------------------------ test harness
\* A harness that drives the handlers directly signals events the `ws`
\* life cycle would not produce: 'open' on a connection that is not
\* CONNECTING (a second 'open', an 'open' after the attempt failed), or a
\* further 'error'.  A connection signalled open reports readyState OPEN; an
\* injected 'error' leaves readyState as it is.
InjectOpen(a, outcome) ==
  /\ phase = "session"
  /\ a \in DOMAIN att
  /\ att[a].ws # "CONNECTING"
  /\ att[a].injected < MaxInject
  /\ outcome \in HandleUpgradeOutcomes(socket)
  /\ Commit(OnTargetOpen([Cur EXCEPT !.att[a].injected = @ + 1,
                                     !.att[a].ws = "OPEN",
                                     !.att[a].opened = TRUE], a, outcome))
  /\ Saw("mixed")
  /\ UNCHANGED maxRetries

InjectError(a, e) ==
  /\ phase = "session"
  /\ a \in DOMAIN att
  /\ att[a].ws \notin {"CONNECTING", "ABORTED"}
  /\ att[a].injected < MaxInject
  /\ Commit(NoteRetry(Cur, TargetErrorHandlers(
              [Cur EXCEPT !.att[a] = NoteFailure([@ EXCEPT !.injected = @ + 1], e)], a, e), a))
  /\ Saw("mixed")
  /\ UNCHANGED maxRetries

NextHarness ==
  \/ UpgradeRequest(TRUE, FALSE)
  \/ \E i \in DOMAIN pending : RetryTimer(i)
  \/ \E a \in DOMAIN att : ConnectionTimeout(a)
  \/ \E a \in DOMAIN att, o \in {"callback", "throws", "aborted"} : TargetOpen(a, o)
  \/ \E a \in DOMAIN att, e \in Errors : TargetError(a, e)
  \/ SocketError
  \/ InboundGone
  \/ \E a \in DOMAIN att, o \in {"callback", "throws", "aborted"} : InjectOpen(a, o)
  \/ \E a \in DOMAIN att, e \in Errors : InjectError(a, e)

\* The harness drives a gateway configured with maxRetries = 1.
InitHarness == InitFor({1}, {"WebSocketProxy"})

SpecHarness == InitHarness /\ [][NextHarness]_vars

\* ------------------------------------------------------- request routing
\* Strings are sequences of tokens.  A request path is a sequence of path
\* tokens, a query string is empty or one token that starts with "?".
PathTokens == {"/a", "/b"}
Queries == {<<>>, <<"?q=1">>}

RECURSIVE SeqsUpTo(_, _)
SeqsUpTo(S, n) ==
  IF n = 0 THEN {<<>>}
  ELSE LET shorter == SeqsUpTo(S, n - 1)
       IN  shorter \cup {Append(q, x) : q \in shorter, x \in S}

Paths == SeqsUpTo(PathTokens, MaxPath)

\* Target URLs of a configuration: a WebSocket URL without a path, a
\* WebSocket URL with a path, an HTTPS URL without a path, and the empty
\* string.
TargetWs      == <<"wss://", "host-a">>
TargetWsPath  == <<"wss://", "host-b", "/a">>
TargetHttps   == <<"https://", "host-c">>
Targets == {TargetWs, TargetWsPath, TargetHttps, <<>>}

\* `undefined` / `null`
Undefined == <<"undefined">>

\* Route prefixes a configuration names.
RouteKeys == {<<>>, <<"/a">>, <<"/a", "/b">>, <<"/b">>}

\* Route tables: the entries of config.routes in insertion order, each
\* <<prefix, target>>, no prefix twice.
RouteTables ==
  {t \in SeqsUpTo(RouteKeys \X Targets, MaxRoutes) :
     \A i, j \in DOMAIN t : i # j => t[i][1] # t[j][1]}

\* JavaScript truthiness of a string or undefined.
Truthy(v) == v # Undefined /\ v # <<>>

\* this.routes[pathname]
Lookup(routes, key) ==
  IF \E i \in DOMAIN routes : routes[i][1] = key
  THEN routes[CHOOSE i \in DOMAIN routes : routes[i][1] = key][2]
  ELSE Undefined

\* pathname.startsWith(route)
StartsWith(path, route) ==
  Len(route) <= Len(path) /\ SubSeq(path, 1, Len(route)) = route

RECURSIVE InsertByLength_Ascending(_, _)
\* A sort with the comparator a.length - b.length.
InsertByLength_Ascending(sorted, e) ==
  IF sorted = <<>> THEN <<e>>
  ELSE IF Len(Head(sorted)[1]) <= Len(e[1])
  THEN <<Head(sorted)>> \o InsertByLength_Ascending(Tail(sorted), e)
  ELSE <<e>> \o sorted

RECURSIVE InsertByLength(_, _)
\* Entry e placed into a list sorted by descending prefix length, behind the
\* entries of the same length (Array.prototype.sort is stable).
InsertByLength(sorted, e) ==
  IF sorted = <<>> THEN <<e>>
  ELSE IF Len(Head(sorted)[1]) >= Len(e[1])
  THEN <<Head(sorted)>> \o InsertByLength(Tail(sorted), e)
  ELSE <<e>> \o sorted

RECURSIVE SortedRoutes(_)
\* Object.entries(this.routes).sort(([a], [b]) => b.length - a.length)
SortedRoutes(routes) ==
  IF routes = <<>> THEN <<>>
  ELSE InsertByLength(SortedRoutes(SubSeq(routes, 1, Len(routes) - 1)),
                      routes[Len(routes)])

RECURSIVE FirstMatch(_, _, _)
\* for (const [route, target] of sortedRoutes) if (pathname.startsWith(route)) return target;
\* return this.defaultTarget;
FirstMatch(sorted, path, defaultTarget) ==
  IF sorted = <<>> THEN defaultTarget
  ELSE IF StartsWith(path, Head(sorted)[1]) THEN Head(sorted)[2]
  ELSE FirstMatch(Tail(sorted), path, defaultTarget)

\* getTargetForPath(pathname)
GetTargetForPath(routes, defaultTarget, path) ==
  IF Truthy(Lookup(routes, path)) THEN Lookup(routes, path)
  ELSE FirstMatch(SortedRoutes(routes), path, defaultTarget)

\* buildTargetWebSocketUrl(targetUrl, queryString): a ws:// or wss:// target
\* is returned with the query string appended; of any other target the
\* scheme is replaced and url.parse(targetUrl).path ("/" for a URL without a
\* path) is kept.
BuildTargetWebSocketUrl(targetUrl, queryString) ==
  IF Head(targetUrl) \in {"ws://", "wss://"}
  THEN targetUrl \o queryString
  ELSE LET protocol == IF Head(targetUrl) = "https://" THEN "wss://" ELSE "ws://"
           host     == targetUrl[2]
           rest     == SubSeq(targetUrl, 3, Len(targetUrl))
           path     == IF rest = <<>> THEN <<"/">> ELSE rest
       IN  <<protocol, host>> \o path \o queryString

\* A gateway with a route table and a default target receives one upgrade
\* request for `path` with query string `query`.
InitRoutes ==
  /\ phase = "listening"
  /\ maxRetries = DefaultMaxRetries
  /\ retries = 0
  /\ pending = <<>>
  /\ att = <<>>
  /\ socket = NewSocket
  /\ relay = <<>>
  /\ \E t \in RouteTables, d \in {Undefined, TargetHttps}, p \in Paths \ {<<>>},
        q \in Queries :
       obs = [class |-> "WebSocketProxy", cfg |-> 0, badUrl |-> FALSE, calls |-> 0,
              only |-> "none",
              routes |-> t, defaultTarget |-> d, path |-> p, query |-> q,
              target |-> Undefined, url |-> <<>>]

\* server.on('upgrade') for the request of obs: the target is resolved and,
\* when there is one, the first attemptConnection builds the outbound URL.
UpgradeRouted ==
  /\ phase = "listening"
  /\ LET targetUrl == GetTargetForPath(obs.routes, obs.defaultTarget, obs.path) IN
     /\ Commit(OnUpgrade(Cur, Truthy(targetUrl), FALSE))
     /\ IF ~Truthy(targetUrl)
        THEN obs' = [obs EXCEPT !.target = targetUrl]
        ELSE obs' = [obs EXCEPT !.target = targetUrl, !.calls = @ + 1,
                                !.url = BuildTargetWebSocketUrl(targetUrl, obs.query)]
  /\ UNCHANGED maxRetries

NextRoutes == UpgradeRouted

SpecRoutes == InitRoutes /\ [][NextRoutes]_vars

\* ---------------------------------------------------------------- stop()
\* obs.server is the state of the http.Server: "listening", "closing" after
\* server.close() (the listening handle is closed, connections already
\* accepted stay), "closed" once every connection has ended.  obs.conn says
\* whether the client's TCP connection has been accepted.

\* A stop() that also ends the connections the server holds.
OnStop_CloseConnections(s) ==
  [s EXCEPT !.socket = Destroy(@),
            !.relay = [r \in DOMAIN s.relay |->
                         [s.relay[r] EXCEPT !.cws = IF IsOpen(@) THEN "CLOSING" ELSE @]]]

\* stop(): this.server.close(callback) touches no session.
OnStop(s) == s

InitStop ==
  /\ phase = "listening"
  /\ maxRetries = ConfiguredRetries(1)
  /\ retries = 0
  /\ pending = <<>>
  /\ att = <<>>
  /\ socket = NewSocket
  /\ relay = <<>>
  /\ obs = [class |-> "WebSocketProxy", cfg |-> 1, badUrl |-> FALSE, calls |-> 0,
            only |-> "none",
            server |-> "listening", conn |-> FALSE,
            \* history: a connection / an upgrade request accepted after stop();
            \* a relay was active at stop(); messages it had sent by then
            connAfterStop |-> FALSE, upgradeAfterStop |-> FALSE,
            activeAtStop |-> FALSE, sentAtStop |-> 0]

\* The server accepts the client's TCP connection.
Connect ==
  /\ obs.server = "listening"
  /\ ~obs.conn
  /\ obs' = [obs EXCEPT !.conn = TRUE, !.connAfterStop = obs.server # "listening"]
  /\ UNCHANGED <<phase, maxRetries, retries, pending, att, socket, relay>>

\* The 'upgrade' request arrives on the accepted connection.
ConnUpgrade ==
  /\ obs.conn
  /\ phase = "listening"
  /\ Commit(OnUpgrade(Cur, TRUE, FALSE))
  /\ obs' = [obs EXCEPT !.calls = @ + 1,
                        !.upgradeAfterStop = obs.server # "listening"]
  /\ UNCHANGED maxRetries

\* SIGINT: proxy.stop() is called.
Stop ==
  /\ obs.server = "listening"
  /\ phase \in {"listening", "session", "rejected"}
  /\ Commit(OnStop(Cur))
  /\ obs' = [obs EXCEPT !.server = "closing",
                        !.activeAtStop = \E r \in DOMAIN relay :
                                            relay[r].isProxyActive /\ IsOpen(relay[r].cws),
                        !.sentAtStop = IF relay = <<>> THEN 0 ELSE Len(relay[1].sentTarget)]
  /\ UNCHANGED maxRetries

\* Every connection of the closing server has ended: the callback of
\* server.close() resolves stop() and the SIGINT handler calls
\* process.exit(0).
ServerClosed ==
  /\ obs.server = "closing"
  /\ phase # "exited"
  /\ ~obs.conn \/ socket.destroyed
  /\ phase' = "stopped"
  /\ obs' = [obs EXCEPT !.server = "closed"]
  /\ UNCHANGED <<maxRetries, retries, pending, att, socket, relay>>

NextStop ==
  \/ Connect
  \/ ConnUpgrade
  \/ Stop
  \/ ServerClosed
  \/ \E i \in DOMAIN pending : RetryTimer(i)
  \/ \E a \in DOMAIN att : ConnectionTimeout(a)
  \/ \E a \in DOMAIN att : TargetOpen(a, "callback")
  \/ \E a \in DOMAIN att, e \in {ErrRefused, ErrReset} : TargetError(a, e)
  \/ \E a \in DOMAIN att, ev \in RelayCloseEvents : TargetClose(a, ev, "")
  \/ \E r \in DOMAIN relay, ev \in RelayCloseEvents : ClientClose(r, ev, "")
  \/ \E r \in DOMAIN relay : ClientError(r)
  \/ SocketError
  \/ \E r \in DOMAIN relay : ClientMessage(r, "m1", "ok")

SpecStop == InitStop /\ [][NextStop]_vars

\* ------------------------------------------- class Proxy without retries
\* The second Proxy class of the repository (src/unnamed/part_000, lines
\* 544-835): one outbound attempt per session, no retry, and a relay
\* (establishProxy) with a single message counter.  obs.class is
\* "ProxyNoRetry".

\* The setTimeout callback of handleWebSocketUpgrade (attempt a).
PlainOnTimeout(s, a) ==
  IF s.att[a].ws = "CONNECTING"
  THEN [s EXCEPT !.att[a].ws = "ABORTED",
                 !.socket = WriteAndDestroy(@, 504)]
  ELSE s

\* targetWs.on('open'): handleUpgrade is called outside any try block.
PlainOnTargetOpen(s, a, outcome) ==
  LET s1 == [s EXCEPT !.att[a].timer = ClearTimeout(@)] IN
  CASE outcome = "aborted" -> [s1 EXCEPT !.socket = Destroy(@)]
    [] outcome = "throws"  -> Crash(s1)
    [] OTHER ->
         [s1 EXCEPT !.socket.upgraded = @ + 1,
                    !.att[a].clientWs = Len(s.relay) + 1,
                    !.relay = Append(@, NewRelay(a, TRUE))]

\* targetWs.on('error') registered by handleWebSocketUpgrade.
PlainOnTargetError(s, a, e) ==
  LET s1 == [s EXCEPT !.att[a].timer = ClearTimeout(@)] IN
  IF ~s.socket.destroyed
  THEN [s1 EXCEPT !.socket = WriteAndDestroy(@, IF IsAuthError(e) THEN 401 ELSE 502)]
  ELSE s1

\* socket.on('error') registered by handleWebSocketUpgrade.
PlainOnSocketError(s, a) ==
  [s EXCEPT !.att[a] = CloseTarget([@ EXCEPT !.timer = ClearTimeout(@)])]

\* clientWs.on('message'): send is not inside a try block.
PlainOnClientMessage(s, r, data, send) ==
  LET R == s.relay[r] IN
  IF R.isProxyActive /\ IsOpen(s.att[R.t].ws)
  THEN IF send = "ok"
       THEN [s EXCEPT !.relay[r].sentTarget = Append(@, ToStringBytes(data)),
                      !.relay[r].messageCount = @ + 1]
       ELSE Crash(s)
  ELSE s

\* targetWs.on('message')
PlainOnTargetMessage(s, r, data, send) ==
  LET R == s.relay[r] IN
  IF R.isProxyActive /\ IsOpen(R.cws)
  THEN IF send = "ok"
       THEN [s EXCEPT !.relay[r].sentClient = Append(@, ToStringBytes(data)),
                      !.relay[r].messageCount = @ + 1]
       ELSE Crash(s)
  ELSE s

\* clientWs.on('close'): targetWs.close(code, reason)
PlainOnClientClose(s, r, code, reason) ==
  LET s1 == [s EXCEPT !.relay[r] = Cleanup(@)] IN
  IF IsOpen(s.att[s.relay[r].t].ws)
  THEN TargetCloseCall(s1, s.relay[r].t, code, reason)
  ELSE s1

\* targetWs.on('close'): clientWs.close(code, reason)
PlainOnTargetClose(s, r, code, reason) ==
  LET s1 == [s EXCEPT !.relay[r] = Cleanup(@)] IN
  IF IsOpen(s.relay[r].cws)
  THEN ClientCloseCall(s1, r, code, reason)
  ELSE s1

\* clientWs.on('error'): targetWs.close()
PlainOnClientError(s, r) ==
  LET s1 == [s EXCEPT !.relay[r] = Cleanup(@)] IN
  IF IsOpen(s.att[s.relay[r].t].ws)
  THEN TargetCloseCall(s1, s.relay[r].t, NoCode, "")
  ELSE s1

\* targetWs.on('error') registered by establishProxy: clientWs.close()
PlainOnRelayTargetError(s, r) ==
  LET s1 == [s EXCEPT !.relay[r] = Cleanup(@)] IN
  IF IsOpen(s.relay[r].cws)
  THEN ClientCloseCall(s1, r, NoCode, "")
  ELSE s1

\* server.on('upgrade') with wsTarget configured: handleWebSocketUpgrade.
\* `bad` says new WebSocket rejects the URL or the protocol.
PlainUpgradeRequest(bad) ==
  /\ phase = "listening"
  /\ Commit(IF bad
            THEN [Cur EXCEPT !.phase = "session", !.socket = WriteAndDestroy(@, 502)]
            ELSE [Cur EXCEPT !.phase = "session", !.att = Append(@, NewAttempt)])
  /\ obs' = [obs EXCEPT !.badUrl = bad, !.calls = @ + 1]
  /\ UNCHANGED maxRetries

PlainTimeout(a) ==
  /\ phase = "session"
  /\ a \in DOMAIN att
  /\ att[a].timer = "armed"
  /\ Commit(PlainOnTimeout([Cur EXCEPT !.att[a].timer = "fired"], a))
  /\ UNCHANGED <<maxRetries, obs>>

PlainTargetOpen(a, outcome) ==
  /\ phase = "session"
  /\ a \in DOMAIN att
  /\ att[a].ws = "CONNECTING"
  /\ outcome \in HandleUpgradeOutcomes(socket)
  /\ Commit(PlainOnTargetOpen([Cur EXCEPT !.att[a].ws = "OPEN",
                                          !.att[a].opened = TRUE], a, outcome))
  /\ UNCHANGED <<maxRetries, obs>>

\* The 'error' event of the outbound connection runs the listener of
\* handleWebSocketUpgrade, then the one of establishProxy.
PlainTargetError(a, e) ==
  /\ phase = "session"
  /\ a \in DOMAIN att
  /\ \/ att[a].ws = "CONNECTING" /\ e \in Errors
     \/ att[a].ws = "ABORTED" /\ e \in AbortErrors
     \/ att[a].ws = "OPEN" /\ e \in PostOpenErrors
  /\ LET after == IF att[a].ws = "OPEN" THEN "CLOSING" ELSE "CLOSED"
         r  == att[a].clientWs
         s0 == [Cur EXCEPT !.att[a].ws = "CLOSING"]
         s1 == PlainOnTargetError(s0, a, e)
         s2 == IF r # 0 THEN PlainOnRelayTargetError(s1, r) ELSE s1
     IN  Commit([s2 EXCEPT !.att[a].ws = after])
  /\ UNCHANGED <<maxRetries, obs>>

PlainTargetClose(a, ev) ==
  /\ phase = "session"
  /\ a \in DOMAIN att
  /\ att[a].ws \in {"OPEN", "CLOSING"}
  /\ LET r  == att[a].clientWs
         s0 == [Cur EXCEPT !.att[a].ws = "CLOSED"]
     IN  Commit(IF r # 0 THEN PlainOnTargetClose(s0, r, ev[1], ev[2]) ELSE s0)
  /\ UNCHANGED <<maxRetries, obs>>

PlainSocketError ==
  /\ phase = "session"
  /\ ~socket.destroyed
  /\ att # <<>>
  /\ LET s1 == PlainOnSocketError([Cur EXCEPT !.socket = Destroy(@)], 1)
     IN  Commit([s1 EXCEPT !.relay =
                   [r \in DOMAIN s1.relay |->
                      IF IsOpen(s1.relay[r].cws)
                      THEN [s1.relay[r] EXCEPT !.cws = "CLOSING"]
                      ELSE s1.relay[r]]])
  /\ UNCHANGED <<maxRetries, obs>>

PlainClientClose(r, ev) ==
  /\ phase = "session"
  /\ r \in DOMAIN relay
  /\ relay[r].cws \in {"OPEN", "CLOSING"}
  /\ Commit(PlainOnClientClose([Cur EXCEPT !.relay[r].cws = "CLOSED",
                                           !.socket = Destroy(@)], r, ev[1], ev[2]))
  /\ UNCHANGED <<maxRetries, obs>>

PlainClientError(r) ==
  /\ phase = "session"
  /\ r \in DOMAIN relay
  /\ relay[r].cws = "OPEN"
  /\ Commit(PlainOnClientError([Cur EXCEPT !.relay[r].cws = "CLOSING"], r))
  /\ UNCHANGED <<maxRetries, obs>>

PlainClientMessage(r, data, send) ==
  /\ phase = "session"
  /\ r \in DOMAIN relay
  /\ relay[r].cws \in {"OPEN", "CLOSING"}
  /\ Len(relay[r].inClient) < MaxMsgs
  /\ LET R  == relay[r]
         s0 == [Cur EXCEPT !.relay[r].inClient =
                  Append(@, Arrival(data, R.isProxyActive, IsOpen(att[R.t].ws), send))]
     IN  Commit(PlainOnClientMessage(s0, r, data, send))
  /\ UNCHANGED <<maxRetries, obs>>

PlainTargetMessage(r, data, send) ==
  /\ phase = "session"
  /\ r \in DOMAIN relay
  /\ att[relay[r].t].ws \in {"OPEN", "CLOSING"}
  /\ Len(relay[r].inTarget) < MaxMsgs
  /\ LET R  == relay[r]
         s0 == [Cur EXCEPT !.relay[r].inTarget =
                  Append(@, Arrival(data, R.isProxyActive, IsOpen(R.cws), send))]
     IN  Commit(PlainOnTargetMessage(s0, r, data, send))
  /\ UNCHANGED <<maxRetries, obs>>

InitPlain == InitFor({1}, {"ProxyNoRetry"})

NextPlain ==
  \/ \E bad \in BOOLEAN : PlainUpgradeRequest(bad)
  \/ \E a \in DOMAIN att : PlainTimeout(a)
  \/ \E a \in DOMAIN att, o \in {"callback", "throws", "aborted"} : PlainTargetOpen(a, o)
  \/ \E a \in DOMAIN att, e \in Errors : PlainTargetError(a, e)
  \/ \E a \in DOMAIN att, ev \in CloseEvents : PlainTargetClose(a, ev)
  \/ PlainSocketError
  \/ InboundGone
  \/ \E r \in DOMAIN relay, ev \in CloseEvents : PlainClientClose(r, ev)
  \/ \E r \in DOMAIN relay : PlainClientError(r)
  \/ \E r \in DOMAIN relay, d \in Payloads, o \in SendOutcomes : PlainClientMessage(r, d, o)
  \/ \E r \in DOMAIN relay, d \in Payloads, o \in SendOutcomes : PlainTargetMessage(r, d, o)

SpecPlain == InitPlain /\ [][NextPlain]_vars

\* --------------------------------------------------- outbound handshake
\* The headers and the subprotocol of the outbound connection.  A header
\* value is a one-token string, Undefined when the request does not carry
\* the header.
HeaderNames ==
  {"authorization", "cookie", "user-agent", "sec-websocket-protocol",
   "sec-websocket-extensions", "origin", "x-forwarded-for",
   "sec-websocket-version", "connection", "upgrade"}

\* const headersToForward = [...] of WebSocketProxy.getProxyHeaders and of
\* the retrying Proxy.getProxyHeaders.
HeadersToForward ==
  {"authorization", "cookie", "user-agent", "sec-websocket-protocol",
   "sec-websocket-extensions", "origin"}

\* const forwardHeaders = [...] of the Proxy class without retries.
PlainForwardHeaders ==
  {"authorization", "cookie", "user-agent", "sec-websocket-protocol", "origin"}

\* const headers = {}
NoHeaders == [n \in HeaderNames |-> Undefined]

\* The subprotocol the path heuristic of getProtocolForPath returns.
GraphqlTransportWs == <<"graphql-transport-ws">>
\* A subprotocol a client or a protocol map names.
GraphqlWs == <<"graphql-ws">>

\* request.headers of an inbound upgrade request: the handshake headers a
\* WebSocket client always sends, an authorization and a user-agent header,
\* and any of a subprotocol, an extensions and an x-forwarded-for header.
InboundHeaders ==
  {[n \in HeaderNames |->
      CASE n = "authorization"            -> <<"Bearer t">>
        [] n = "user-agent"               -> <<"ua/1">>
        [] n = "sec-websocket-version"    -> <<"8">>
        [] n = "connection"               -> <<"keep-alive, Upgrade">>
        [] n = "upgrade"                  -> <<"WebSocket">>
        [] n = "sec-websocket-protocol"   -> p
        [] n = "sec-websocket-extensions" -> e
        [] n = "x-forwarded-for"          -> x
        [] OTHER                          -> Undefined] :
     p \in {Undefined, GraphqlWs},
     e \in {Undefined, <<"permessage-deflate">>},
     x \in {Undefined, <<"10.0.0.1">>}}

\* Request paths of the handshake: the tokens "/graphql" and "/subscription"
\* are the ones that contain the words the heuristic looks for.
ProtocolPathTokens == {"/a", "/graphql", "/subscription"}
ProtocolPaths == SeqsUpTo(ProtocolPathTokens, MaxPath) \ {<<>>}

\* Keys and values of config.protocolMap; a protocol map is the entries in
\* insertion order, each <<prefix, protocol>>, no prefix twice.
ProtocolKeys == {<<"/a">>, <<"/a", "/graphql">>, <<"/graphql">>}
ProtocolMaps ==
  {t \in SeqsUpTo(ProtocolKeys \X {GraphqlWs, <<>>}, MaxRoutes) :
     \A i, j \in DOMAIN t : i # j => t[i][1] # t[j][1]}

\* pathname.includes(word), for the words 'graphql' and 'subscription'.
Includes(pathname, word) ==
  \E i \in DOMAIN pathname :
     \/ word = "graphql" /\ pathname[i] = "/graphql"
     \/ word = "subscription" /\ pathname[i] = "/subscription"

\* A resolver that tries the path heuristic before the configured entries.
GetProtocolForPath_HeuristicFirst(protocolMap, pathname) ==
  IF Includes(pathname, "graphql") \/ Includes(pathname, "subscription")
  THEN GraphqlTransportWs
  ELSE IF Truthy(Lookup(protocolMap, pathname))
  THEN Lookup(protocolMap, pathname)
  ELSE FirstMatch(SortedRoutes(protocolMap), pathname, Undefined)

\* getProtocolForPath(pathname)
GetProtocolForPath(protocolMap, pathname) ==
  IF Truthy(Lookup(protocolMap, pathname))
  THEN Lookup(protocolMap, pathname)
  ELSE FirstMatch(SortedRoutes(protocolMap), pathname,
                  IF Includes(pathname, "graphql") \/ Includes(pathname, "subscription")
                  THEN GraphqlTransportWs
                  ELSE Undefined)

\* headersToForward.forEach(...): the listed headers with a truthy value.
ForwardListed(requestHeaders, listed) ==
  [n \in HeaderNames |->
     IF n \in listed /\ Truthy(requestHeaders[n]) THEN requestHeaders[n] ELSE Undefined]

\* The three assignments that end getProxyHeaders.
WithConnectionHeaders(headers) ==
  [headers EXCEPT !["sec-websocket-version"] = <<"13">>,
                  !["connection"] = <<"Upgrade">>,
                  !["upgrade"] = <<"websocket">>]

\* WebSocketProxy.getProxyHeaders(request)
GetProxyHeaders(requestHeaders, protocolMap, pathname) ==
  LET headers  == ForwardListed(requestHeaders, HeadersToForward)
      protocol == GetProtocolForPath(protocolMap, pathname)
  IN  WithConnectionHeaders(
        IF ~Truthy(headers["sec-websocket-protocol"]) /\ Truthy(protocol)
        THEN [headers EXCEPT !["sec-websocket-protocol"] = protocol]
        ELSE headers)

\* getProxyHeaders(request) of the retrying Proxy class
ProxyGetProxyHeaders(requestHeaders) ==
  WithConnectionHeaders(ForwardListed(requestHeaders, HeadersToForward))

\* getProxyHeaders(request) of the Proxy class without retries
PlainGetProxyHeaders(requestHeaders) ==
  ForwardListed(requestHeaders, PlainForwardHeaders)

\* What attemptConnection / handleWebSocketUpgrade hands to new WebSocket:
\* the headers option and the protocols argument (Undefined when the
\* two-argument form is used).
Handshake(class, requestHeaders, protocolMap, pathname) ==
  IF class = "WebSocketProxy"
  THEN LET protocol == GetProtocolForPath(protocolMap, pathname)
           headers  == GetProxyHeaders(requestHeaders, protocolMap, pathname)
       IN  [headers   |-> IF Truthy(protocol)
                          THEN [headers EXCEPT !["sec-websocket-protocol"] = protocol]
                          ELSE headers,
            protocols |-> IF Truthy(protocol) THEN protocol ELSE Undefined]
  ELSE LET clientProtocol == requestHeaders["sec-websocket-protocol"] IN
       [headers   |-> IF class = "Proxy" THEN ProxyGetProxyHeaders(requestHeaders)
                      ELSE PlainGetProxyHeaders(requestHeaders),
        protocols |-> IF Truthy(clientProtocol) THEN clientProtocol ELSE Undefined]

\* The subprotocol the outbound handshake offers: the protocols argument of
\* new WebSocket, which ws writes into Sec-WebSocket-Protocol, else the
\* sec-websocket-protocol entry of the headers option.
Offered(handshake) ==
  IF Truthy(handshake.protocols) THEN handshake.protocols
  ELSE handshake.headers["sec-websocket-protocol"]

\* A gateway of one of the three classes with a protocol map receives one
\* upgrade request for `path` that carries the headers `inbound`; a target
\* is configured for every path.
InitHandshake ==
  /\ phase = "listening"
  /\ maxRetries = DefaultMaxRetries
  /\ retries = 0
  /\ pending = <<>>
  /\ att = <<>>
  /\ socket = NewSocket
  /\ relay = <<>>
  /\ \E c \in {"WebSocketProxy", "Proxy", "ProxyNoRetry"}, m \in ProtocolMaps,
        p \in ProtocolPaths, h \in InboundHeaders :
       /\ c # "WebSocketProxy" => m = <<>>
       /\ obs = [class |-> c, cfg |-> 0, badUrl |-> FALSE, calls |-> 0,
                 only |-> "none",
                 protocolMap |-> m, path |-> p, inbound |-> h,
                 protocol |-> Undefined, headers |-> NoHeaders,
                 offered |-> Undefined]

\* server.on('upgrade') for the request of obs: the first outbound
\* connection is created with the headers and the subprotocol of Handshake.
UpgradeHandshake ==
  /\ phase = "listening"
  /\ Commit(IF obs.class = "ProxyNoRetry"
            THEN [Cur EXCEPT !.phase = "session", !.att = Append(@, NewAttempt)]
            ELSE OnUpgrade(Cur, TRUE, FALSE))
  /\ LET h == Handshake(obs.class, obs.inbound, obs.protocolMap, obs.path) IN
     obs' = [obs EXCEPT !.calls = @ + 1,
                        !.protocol = IF obs.class = "WebSocketProxy"
                                     THEN GetProtocolForPath(obs.protocolMap, obs.path)
                                     ELSE Undefined,
                        !.headers = h.headers,
                        !.offered = Offered(h)]
  /\ UNCHANGED maxRetries

NextHandshake == UpgradeHandshake

SpecHandshake == InitHandshake /\ [][NextHandshake]_vars

\* ------------------------------------------------- concurrent sessions
\* Two upgrade requests served by one process.  Every piece of mutable
\* state of a session is a local of its handleWebSocketUpgrade /
\* attemptConnection / establishWebSocketProxy call, so a session is one
\* record of the shape of Cur: session 1 is held by the variables, session 2
\* by obs.other.  obs.routes is this.routes, obs.last the session the last
\* event belonged to.
SessionIds == {1, 2}

Session(i) == IF i = 1 THEN Cur ELSE obs.other

\* The request path of session i.
SessionPath(i) == IF i = 1 THEN <<"/a">> ELSE <<"/a", "/b", "/a">>

\* process.exit(1), seen from a session: its timers never run and the
\* operating system closes its connections.
ProcessExit(s) ==
  [s EXCEPT !.phase = "exited",
            !.pending = <<>>,
            !.socket = Destroy(@),
            !.att = [a \in DOMAIN s.att |->
                       [s.att[a] EXCEPT !.ws = "CLOSED", !.timer = ClearTimeout(@)]],
            !.relay = [r \in DOMAIN s.relay |->
                         [s.relay[r] EXCEPT !.cws = "CLOSED", !.interval = "none"]]]

\* The process runs.
Running == Alive(Cur) /\ Alive(obs.other)

\* A callback of session i ends with the session in state s: the locals of
\* the other session are not written, unless an exception left the callback
\* and the 'uncaughtException' listener ended the process.
Put(i, s) ==
  LET exits == ~Alive(s)
      one   == IF i = 1 THEN s ELSE Cur
      two   == IF i = 2 THEN s ELSE obs.other
  IN  /\ Commit(IF exits THEN ProcessExit(one) ELSE one)
      /\ obs' = [obs EXCEPT !.other = IF exits THEN ProcessExit(two) ELSE two,
                            !.last = i]
      /\ UNCHANGED maxRetries

InitSessions ==
  /\ phase = "listening"
  /\ maxRetries = ConfiguredRetries(1)
  /\ retries = 0
  /\ pending = <<>>
  /\ att = <<>>
  /\ socket = NewSocket
  /\ relay = <<>>
  /\ obs = [class |-> "WebSocketProxy", cfg |-> 1, badUrl |-> FALSE, calls |-> 0,
            only |-> "none",
            routes |-> << <<<<"/a">>, TargetWs>>, <<<<"/a", "/b">>, TargetWsPath>> >>,
            last |-> 0,
            other |-> [phase |-> "listening", retries |-> 0, pending |-> <<>>,
                       att |-> <<>>, socket |-> NewSocket, relay |-> <<>>]]

\* server.on('upgrade') for the request of session i.
SessionUpgrade(i) ==
  /\ Running
  /\ Session(i).phase = "listening"
  /\ Put(i, OnUpgrade(Session(i),
                      Truthy(GetTargetForPath(obs.routes, Undefined, SessionPath(i))),
                      FALSE))

\* A retry timer of session i runs.
SessionRetryTimer(i, k) ==
  /\ Running
  /\ k \in DOMAIN Session(i).pending
  /\ Put(i, AttemptConnection([Session(i) EXCEPT !.pending = RemoveAt(@, k)], FALSE))

\* The connectionTimeout timer of attempt a of session i runs.
SessionTimeout(i, a) ==
  /\ Running
  /\ a \in DOMAIN Session(i).att
  /\ Session(i).att[a].timer = "armed"
  /\ Put(i, OnConnectionTimeout([Session(i) EXCEPT !.att[a].timer = "fired"], a))

\* The outbound connection of attempt a of session i opens.
SessionTargetOpen(i, a) ==
  /\ Running
  /\ a \in DOMAIN Session(i).att
  /\ Session(i).att[a].ws = "CONNECTING"
  /\ \E outcome \in HandleUpgradeOutcomes(Session(i).socket) \ {"throws"} :
       Put(i, OnTargetOpen([Session(i) EXCEPT !.att[a].ws = "OPEN",
                                              !.att[a].opened = TRUE], a, outcome))

\* The handshake of attempt a of session i fails with error e.
SessionTargetError(i, a, e) ==
  /\ Running
  /\ a \in DOMAIN Session(i).att
  /\ Session(i).att[a].ws = "CONNECTING"
  /\ LET s1 == TargetErrorHandlers([Session(i) EXCEPT !.att[a].ws = "CLOSING"], a, e)
     IN  Put(i, [s1 EXCEPT !.att[a].ws = "CLOSED"])

\* clientWs.on('message') of relay r of session i.
SessionClientMessage(i, r) ==
  /\ Running
  /\ r \in DOMAIN Session(i).relay
  /\ Session(i).relay[r].established
  /\ Session(i).relay[r].cws \in {"OPEN", "CLOSING"}
  /\ Session(i).relay[r].clientToTarget < 1
  /\ Put(i, ForwardClientToTarget(Session(i), r, "m1", "ok"))

\* The client connection of relay r of session i emits 'close'.
SessionClientClose(i, r, ev) ==
  /\ Running
  /\ r \in DOMAIN Session(i).relay
  /\ Session(i).relay[r].cws \in {"OPEN", "CLOSING"}
  /\ LET s  == Session(i)
         s0 == [s EXCEPT !.relay[r].cws = "CLOSED", !.socket = Destroy(@)]
     IN  Put(i, IF s.relay[r].established
                THEN OnRelayClientClose(s0, r, ev[1], ev[2], "no reason")
                ELSE s0)

NextSessions ==
  \E i \in SessionIds :
    \/ SessionUpgrade(i)
    \/ \E k \in DOMAIN Session(i).pending : SessionRetryTimer(i, k)
    \/ \E a \in DOMAIN Session(i).att : SessionTimeout(i, a)
    \/ \E a \in DOMAIN Session(i).att : SessionTargetOpen(i, a)
    \/ \E a \in DOMAIN Session(i).att : SessionTargetError(i, a, ErrRefused)
    \/ \E r \in DOMAIN Session(i).relay : SessionClientMessage(i, r)
    \/ \E r \in DOMAIN Session(i).relay, ev \in {<<1000, "bye">>, <<1005, "">>} :
         SessionClientClose(i, r, ev)

SpecSessions == InitSessions /\ [][NextSessions]_vars

\* ------------------------------------------------- simple token proxy
\* src/simple-ws-proxy.js: a WebSocket server whose 'connection' handler
\* dials one fixed target per client.  One client connection is modelled:
\* relay holds the client socket, att the target socket (empty while none
\* was created), obs.token the token parameter of the request URL and
\* obs.buffers whether the installed ws hands messages over as Buffers.
ConnectionInit == "{\"type\":\"connection_init\"}"

\* parse(req.url, true).query.token: absent, empty, or a value.
Tokens == {Undefined, <<>>, <<"t1">>, <<"t2">>}

\* The client socket the server hands to the 'connection' handler.
SimpleClient ==
  [cws |-> "OPEN", cCloseCalls |-> <<>>, sentClient |-> <<>>,
   \* history: messages received from the client, and those among them that
   \* arrived before the target was open
   inClient |-> 0, early |-> 0]

\* new WebSocket(targetUrl, 'graphql-transport-ws')
SimpleTarget(token) ==
  [ws |-> "CONNECTING",
   url |-> <<"wss://api.aion.to/ws/graphql?token=">> \o token,
   protocol |-> "graphql-transport-ws",
   closeCalls |-> <<>>, sentTarget |-> <<>>, inTarget |-> 0,
   \* history: 'open' was emitted
   opened |-> FALSE]

\* A frame handed to send(): a string goes out as a text frame, a Buffer as
\* a binary frame.
Frame(data, isBuffer) == [data |-> data, binary |-> isBuffer]

\* server.on('connection', (clientSocket, req) => ...)
SimpleOnConnection(s, token) ==
  IF ~Truthy(token)
  THEN [s EXCEPT !.phase = "rejected",
                 !.relay[1].cws = AfterClose(@),
                 !.relay[1].cCloseCalls = Append(@, <<4001, "No token provided">>)]
  ELSE [s EXCEPT !.phase = "session", !.att = <<SimpleTarget(token)>>]

\* An 'open' handler that sends nothing.
SimpleOnTargetOpen_Silent(s) == s

\* targetSocket.on('open')
SimpleOnTargetOpen(s) ==
  [s EXCEPT !.att[1].sentTarget = Append(@, Frame(ConnectionInit, FALSE))]

\* clientSocket.on('message')
SimpleOnClientMessage(s, data, isBuffer) ==
  IF IsOpen(s.att[1].ws)
  THEN [s EXCEPT !.att[1].sentTarget = Append(@, Frame(data, isBuffer))]
  ELSE s

\* targetSocket.on('message')
SimpleOnTargetMessage(s, data, isBuffer) ==
  IF IsOpen(s.relay[1].cws)
  THEN [s EXCEPT !.relay[1].sentClient = Append(@, Frame(data, isBuffer))]
  ELSE s

\* clientSocket.on('close')
SimpleOnClientClose(s) ==
  IF IsOpen(s.att[1].ws)
  THEN [s EXCEPT !.att[1].ws = AfterClose(@),
                 !.att[1].closeCalls = Append(@, <<NoCode, "">>)]
  ELSE s

\* targetSocket.on('close')
SimpleOnTargetClose(s) ==
  IF IsOpen(s.relay[1].cws)
  THEN [s EXCEPT !.relay[1].cws = AfterClose(@),
                 !.relay[1].cCloseCalls = Append(@, <<NoCode, "">>)]
  ELSE s

\* A client has completed its handshake with the server; the 'connection'
\* event is about to be emitted.
InitSimple ==
  /\ phase = "listening"
  /\ maxRetries = 0
  /\ retries = 0
  /\ pending = <<>>
  /\ att = <<>>
  /\ socket = NewSocket
  /\ relay = <<SimpleClient>>
  /\ \E b \in BOOLEAN :
       obs = [class |-> "simple-ws-proxy", cfg |-> 0, badUrl |-> FALSE, calls |-> 0,
              only |-> "none", token |-> Undefined, buffers |-> b]

\* The 'connection' event for a request URL whose token parameter is token.
SimpleConnection(token) ==
  /\ phase = "listening"
  /\ Commit(SimpleOnConnection(Cur, token))
  /\ obs' = [obs EXCEPT !.token = token]
  /\ UNCHANGED maxRetries

\* The target accepts the handshake: ws sets readyState to OPEN and emits
\* 'open' in the same turn.
SimpleTargetOpen ==
  /\ phase = "session"
  /\ att[1].ws = "CONNECTING"
  /\ Commit(SimpleOnTargetOpen([Cur EXCEPT !.att[1].ws = "OPEN", !.att[1].opened = TRUE]))
  /\ UNCHANGED <<maxRetries, obs>>

\* The handshake with the target fails: 'error' (logged by the handler of
\* line 52) and then 'close' are emitted.
SimpleTargetFail ==
  /\ phase = "session"
  /\ att[1].ws = "CONNECTING"
  /\ Commit(SimpleOnTargetClose([Cur EXCEPT !.att[1].ws = "CLOSED"]))
  /\ UNCHANGED <<maxRetries, obs>>

\* The client sends a message.  Without a token no 'message' listener was
\* registered and the event has no effect.
SimpleClientMessage(data) ==
  /\ phase \in {"session", "rejected"}
  /\ relay[1].cws \in {"OPEN", "CLOSING"}
  /\ relay[1].inClient < MaxMsgs
  /\ LET s0 == [Cur EXCEPT !.relay[1].inClient = @ + 1,
                           !.relay[1].early =
                              IF att # <<>> /\ att[1].ws = "CONNECTING" THEN @ + 1 ELSE @]
     IN  Commit(IF att # <<>> THEN SimpleOnClientMessage(s0, data, obs.buffers) ELSE s0)
  /\ UNCHANGED <<maxRetries, obs>>

\* The target sends a message.
SimpleTargetMessage(data) ==
  /\ phase = "session"
  /\ att[1].ws \in {"OPEN", "CLOSING"}
  /\ att[1].inTarget < MaxMsgs
  /\ Commit(SimpleOnTargetMessage([Cur EXCEPT !.att[1].inTarget = @ + 1], data, obs.buffers))
  /\ UNCHANGED <<maxRetries, obs>>

\* The client connection emits 'close'.
SimpleClientClose ==
  /\ phase \in {"session", "rejected"}
  /\ relay[1].cws \in {"OPEN", "CLOSING"}
  /\ LET s0 == [Cur EXCEPT !.relay[1].cws = "CLOSED"]
     IN  Commit(IF att # <<>> THEN SimpleOnClientClose(s0) ELSE s0)
  /\ UNCHANGED <<maxRetries, obs>>

\* The target connection emits 'close'.
SimpleTargetClose ==
  /\ phase = "session"
  /\ att[1].ws \in {"OPEN", "CLOSING"}
  /\ Commit(SimpleOnTargetClose([Cur EXCEPT !.att[1].ws = "CLOSED"]))
  /\ UNCHANGED <<maxRetries, obs>>

NextSimple ==
  \/ \E token \in Tokens : SimpleConnection(token)
  \/ SimpleTargetOpen
  \/ SimpleTargetFail
  \/ \E data \in {"m1", "m2"} : SimpleClientMessage(data)
  \/ \E data \in {"m1", "m2"} : SimpleTargetMessage(data)
  \/ SimpleClientClose
  \/ SimpleTargetClose

SpecSimple == InitSimple /\ [][NextSimple]_vars

\* ------------------------------------------------------- config loader
\* src/src/config-loader.js.  A JavaScript value is a string: "undefined"
\* (the key is absent), "null", "true", "false", or the text of a string or
\* number.  A URL is a sequence of tokens, Null the value null of a target.
Null == <<"null">>

\* Truthiness of a value of a configuration file.
IsTruthy(v) == v \notin {"undefined", "null", "false", ""}

\* const defaults = {...}
Defaults ==
  [port |-> "8080", domain |-> "null", secure |-> "true", connectionTimeout |-> "15000"]

ConfigKeys == {"port", "domain", "secure", "connectionTimeout", "wsTarget"}

\* What yaml.load returns for the configuration files considered: any of the
\* keys may be absent; `secure: no` is the string "no" in YAML 1.2.
FileConfigs ==
  [port : {"undefined", "3000"},
   domain : {"undefined", "null", "", "api.aion.to", "localhost:9000"},
   secure : {"undefined", "true", "false", "null", "no"},
   connectionTimeout : {"undefined", "5000"},
   wsTarget : {"undefined", "ws://elsewhere"}]

\* The ways loading ends: the file does not exist, readFileSync throws,
\* yaml.load throws, or yaml.load returns.
FileOutcomes == {"missing", "unreadable", "invalid", "parsed"}

\* { ...defaults, ...config }: every own key of config, null included,
\* replaces the default.
Merge(defaults, config) ==
  [k \in ConfigKeys |->
     IF config[k] # "undefined" THEN config[k]
     ELSE IF k \in DOMAIN defaults THEN defaults[k]
     ELSE "undefined"]

\* { ...defaults }
Spread(defaults) ==
  [k \in ConfigKeys |-> IF k \in DOMAIN defaults THEN defaults[k] ELSE "undefined"]

\* A buildTargetUrls whose WebSocket scheme ignores the secure flag.
BuildTargetUrls_PlainWs(config) ==
  IF ~IsTruthy(config.domain)
  THEN [config |-> config, httpTarget |-> Null, wsTarget |-> Null]
  ELSE LET httpProtocol == IF IsTruthy(config.secure) THEN "https" ELSE "http"
           wsProtocol   == "ws"
       IN  [config |-> config,
            httpTarget |-> <<httpProtocol, "://", config.domain>>,
            wsTarget   |-> <<wsProtocol, "://", config.domain>>]

\* buildTargetUrls(config): `config` holds the keys spread from the
\* argument; httpTarget and wsTarget replace keys of the same name.
BuildTargetUrls(config) ==
  IF ~IsTruthy(config.domain)
  THEN [config |-> config, httpTarget |-> Null, wsTarget |-> Null]
  ELSE LET httpProtocol == IF IsTruthy(config.secure) THEN "https" ELSE "http"
           wsProtocol   == IF IsTruthy(config.secure) THEN "wss" ELSE "ws"
       IN  [config |-> config,
            httpTarget |-> <<httpProtocol, "://", config.domain>>,
            wsTarget   |-> <<wsProtocol, "://", config.domain>>]

\* loadConfig(configPath)
LoadConfigResult(outcome, fileConfig) ==
  IF outcome = "parsed"
  THEN BuildTargetUrls(Merge(Defaults, fileConfig))
  ELSE BuildTargetUrls(Spread(Defaults))

\* A process about to call loadConfig on a configuration file.
InitConfig ==
  /\ phase = "loading"
  /\ maxRetries = 0
  /\ retries = 0
  /\ pending = <<>>
  /\ att = <<>>
  /\ socket = NewSocket
  /\ relay = <<>>
  /\ \E o \in FileOutcomes, c \in FileConfigs :
       /\ o # "parsed" => c = [k \in ConfigKeys |-> "undefined"]
       /\ obs = [class |-> "config-loader", cfg |-> 0, badUrl |-> FALSE, calls |-> 0,
                 only |-> "none", file |-> o, config |-> c,
                 result |-> [config |-> c, httpTarget |-> Null, wsTarget |-> Null]]

\* loadConfig returns.
LoadConfig ==
  /\ phase = "loading"
  /\ phase' = "loaded"
  /\ obs' = [obs EXCEPT !.result = LoadConfigResult(obs.file, obs.config)]
  /\ UNCHANGED <<maxRetries, retries, pending, att, socket, relay>>

NextConfig == LoadConfig

SpecConfig == InitConfig /\ [][NextConfig]_vars

\* ================================================================= claims
\* Number of relay sessions established so far.
RECURSIVE CountEstablished(_)
CountEstablished(rs) ==
  IF rs = <<>> THEN 0
  ELSE (IF rs[Len(rs)].established THEN 1 ELSE 0) + CountEstablished(SubSeq(rs, 1, Len(rs) - 1))

Settled ==
  /\ phase = "session"
  /\ pending = <<>>
  /\ \A a \in DOMAIN att : IsClosed(att[a].ws) \/ att[a].timer = "fired"

Last(q) == q[Len(q)]

\* C2: a session all of whose outbound attempts fail with a retryable
\* connection-class error (refused, unresolved host, transport timeout,
\* unexpected handshake response) makes exactly maxRetries + 1 attempts and
\* then writes 502 to the inbound socket and closes it.
C2_RetryBudget ==
  (obs.only = "conn") =>
     /\ Len(att) <= maxRetries + 1
     /\ (socket.written # <<>> =>
           /\ socket.written = <<502>>
           /\ socket.destroyed
           /\ Len(att) = maxRetries + 1)
     /\ (Settled => socket.written = <<502>>)

\* C3: an authentication-class error on the attempt in flight of a session
\* that is not upgraded fails the session at once: 401 is written, the
\* inbound socket is closed and no further attempt is ever started, whatever
\* maxRetries is and however many attempts remain; on the first attempt the
\* session makes exactly one attempt.
C3_AuthFailsAtOnce ==
  \A a \in DOMAIN att :
    (att[a].failure = "auth" /\ att[a].failedLive) =>
       /\ socket.written # <<>>
       /\ Last(socket.written) = 401
       /\ socket.destroyed
       /\ pending = <<>>
       /\ Len(att) = a
       /\ obs.calls = a

\* An authentication error met the first attempt while the whole retry
\* budget remained.
C3_Witness ==
  /\ Len(att) = 1
  /\ att[1].failure = "auth" /\ att[1].failedLive
  /\ retries = 0 /\ maxRetries = DefaultMaxRetries
  /\ socket.wire = <<401>>

\* The timeout timer of attempt a runs while the attempt is still connecting.
TimeoutWhileConnecting(a) ==
  /\ att[a].timer = "armed" /\ att'[a].timer = "fired"
  /\ ~att[a].isUpgraded /\ ~att[a].connectionClosed

\* C4: when the connection-timeout timer runs while the session is still
\* connecting, a new attempt is scheduled if attempts remain, otherwise 504
\* is written and the inbound socket closed; a session all of whose attempts
\* time out makes maxRetries + 1 attempts and ends with 504.
C4_Timeout ==
  /\ [][\A a \in DOMAIN att :
          TimeoutWhileConnecting(a) =>
             IF retries < maxRetries
             THEN /\ pending' = Append(pending, retries + 1)
                  /\ retries' = retries + 1
                  /\ socket' = socket
             ELSE /\ socket'.written = Append(socket.written, 504)
                  /\ socket'.destroyed
                  /\ pending' = pending /\ retries' = retries]_vars
  /\ [](obs.only = "timeout" =>
          /\ Len(att) <= maxRetries + 1
          /\ (socket.written # <<>> =>
                socket.written = <<504>> /\ Len(att) = maxRetries + 1)
          /\ (Settled => socket.written = <<504>>))

\* Every attempt of a session with the default budget timed out.
C4_Witness ==
  /\ obs.only = "timeout" /\ att # <<>> /\ Settled
  /\ maxRetries = DefaultMaxRetries
  /\ Len(att) = maxRetries + 1
  /\ socket.wire = <<504>>

\* C5: the inbound upgrade is never completed before an outbound connection
\* has opened, and a relay session is bound to a connection that opened.
C5_UpgradeAfterOpen ==
  /\ (socket.upgraded > 0 => \E a \in DOMAIN att : att[a].opened)
  /\ \A r \in DOMAIN relay :
       /\ relay[r].t \in DOMAIN att
       /\ att[relay[r].t].opened
       /\ att[relay[r].t].clientWs = r

\* The second attempt opened and carries the relay; the first never opened.
C5_Witness ==
  /\ socket.upgraded = 1
  /\ Len(att) >= 2 /\ Len(relay) = 1
  /\ relay[1].t = 2 /\ relay[1].established
  /\ ~att[1].opened

\* The close call that answers the close event `ev` of one side, given the
\* close calls made on the other side.
Mirrored(ev, calls) ==
  IF ev = <<>> THEN TRUE
  ELSE IF ev[3]
  THEN Len(calls) > ev[4] /\ calls[ev[4] + 1] = <<ev[1], ev[2]>>
  ELSE Len(calls) = ev[4]

\* C6: when one side of a relay session closes with code c and reason r and
\* the other side is open, the other side is closed with the same c and r;
\* when the other side is not open no close is issued.
C6_CloseMirrored ==
  \A r \in DOMAIN relay :
    relay[r].established =>
       /\ Mirrored(relay[r].clientClosed, att[relay[r].t].closeCalls)
       /\ Mirrored(relay[r].targetClosed, relay[r].cCloseCalls)

\* C7: the active flag of a relay session goes from true to false once and
\* is never true again, and the summary is logged exactly once however the
\* close and error events of the two sides interleave.
C7_CleanupOnce ==
  /\ [](\A r \in DOMAIN relay :
          relay[r].established =>
             relay[r].logged = IF relay[r].isProxyActive THEN 0 ELSE 1)
  /\ [][\A r \in DOMAIN relay :
          ~relay[r].isProxyActive => ~relay'[r].isProxyActive]_vars

\* Both sides delivered their close event and the summary was logged once.
C7_Witness ==
  \E r \in DOMAIN relay :
    /\ relay[r].established
    /\ relay[r].clientClosed # <<>> /\ relay[r].targetClosed # <<>>
    /\ relay[r].logged = 1 /\ ~relay[r].isProxyActive

\* The payloads of the arrivals that met an active session, an open
\* destination and a working send, in order of arrival.
Deliverable(arrivals) ==
  LET d == SelectSeq(arrivals, LAMBDA x : x.deliverable)
  IN  [i \in 1..Len(d) |-> d[i].data]

\* C8: in an active session with both sides open every message received on
\* one side is sent to the other exactly once, in the order received, with
\* the payload it was received with.
C8_Forwarding ==
  \A r \in DOMAIN relay :
    /\ relay[r].sentTarget = Deliverable(relay[r].inClient)
    /\ relay[r].sentClient = Deliverable(relay[r].inTarget)

\* C9: a keepalive tick of an active session pings each side that is open;
\* once the session is inactive no tick pings either side.
C9_Keepalive ==
  [][\A r \in DOMAIN relay :
       LET R == relay[r]
           tick == relay'[r].ticks = R.ticks + 1
       IN  /\ (tick /\ R.isProxyActive) =>
                /\ relay'[r].pingsTarget = R.pingsTarget + (IF IsOpen(att[R.t].ws) THEN 1 ELSE 0)
                /\ relay'[r].pingsClient = R.pingsClient + (IF IsOpen(R.cws) THEN 1 ELSE 0)
           /\ ~(tick /\ R.isProxyActive) =>
                /\ relay'[r].pingsTarget = R.pingsTarget
                /\ relay'[r].pingsClient = R.pingsClient]_vars

\* A tick pinged both sides, the session ended, and the next tick pinged
\* neither.
C9_Witness ==
  \E r \in DOMAIN relay :
    /\ relay[r].ticks = 2 /\ ~relay[r].isProxyActive
    /\ relay[r].pingsTarget = 1 /\ relay[r].pingsClient = 1
    /\ relay[r].interval = "cleared"

\* C10: no connection is left open without a session supervising it: an
\* outbound connection is never open while its attempt is abandoned (every
\* handler of the attempt returns at once) and no relay session holds it.
C10_NoneLeftOpen ==
  \A a \in DOMAIN att :
    ~(IsOpen(att[a].ws) /\ att[a].connectionClosed /\ att[a].clientWs = 0)

\* The target a reference resolver gives: the exact entry, else the entry
\* with the longest prefix of the path, else the default.
LongestMatchingPrefix(routes, defaultTarget, path) ==
  LET exact    == {i \in DOMAIN routes : routes[i][1] = path}
      prefixes == {i \in DOMAIN routes : StartsWith(path, routes[i][1])}
  IN  IF exact # {} THEN routes[CHOOSE i \in exact : TRUE][2]
      ELSE IF prefixes # {}
      THEN routes[CHOOSE i \in prefixes :
                    \A j \in prefixes : Len(routes[j][1]) <= Len(routes[i][1])][2]
      ELSE defaultTarget

\* C11: for every route table and path the resolver returns the target of
\* the exact entry, else of the entry with the longest prefix that is a
\* literal prefix of the path, else the configured default: its result
\* equals the reference longest-matching-prefix operator.
C11_LongestPrefix ==
  phase # "listening" =>
     obs.target = LongestMatchingPrefix(obs.routes, obs.defaultTarget, obs.path)

\* With routes {"/a": A, "/a/b": B}, entered in that order, the request
\* path /a/b/a was resolved to B.
C11_Witness ==
  /\ phase = "session"
  /\ obs.routes = << <<<<"/a">>, TargetWs>>, <<<<"/a", "/b">>, TargetWsPath>> >>
  /\ obs.path = <<"/a", "/b", "/a">>
  /\ obs.target = TargetWsPath

\* C12: when resolution yields no target for an upgrade request, a failure
\* status line is written to the inbound socket, the socket is closed and no
\* outbound attempt is started.
C12_NoTargetFailsExplicitly ==
  (/\ phase # "listening"
   /\ LongestMatchingPrefix(obs.routes, obs.defaultTarget, obs.path) \in {Undefined, <<>>}) =>
     /\ phase = "rejected"
     /\ socket.written = <<404>> /\ socket.wire = <<404>>
     /\ socket.destroyed
     /\ att = <<>> /\ pending = <<>>

\* A request whose path matches no entry of a non-empty table without a
\* default was refused.
C12_Witness ==
  /\ phase = "rejected"
  /\ obs.routes # <<>> /\ obs.defaultTarget = Undefined
  /\ \A i \in DOMAIN obs.routes : ~StartsWith(obs.path, obs.routes[i][1])
  /\ socket.wire = <<404>>

\* The request's scheme-converted target followed by path and query.
ToWebSocketScheme(targetUrl) ==
  IF Head(targetUrl) \in {"ws://", "wss://"} THEN targetUrl
  ELSE <<IF Head(targetUrl) = "https://" THEN "wss://" ELSE "ws://">> \o Tail(targetUrl)

\* C13: the URL of the outbound connection is the resolved target followed
\* by the request's path and query string unchanged, also when the target
\* was chosen by a prefix match or by the default.
C13_UrlKeepsPathAndQuery ==
  phase = "session" =>
     obs.url = ToWebSocketScheme(obs.target) \o obs.path \o obs.query

TranslatedCode(code) ==
  CASE code = "ECONNRESET" -> 1006
    [] code = "ETIMEDOUT"  -> 1001
    [] OTHER               -> 1011

\* C15: when the target side of an active relay session raises an error
\* while the client side is open, the client side is closed with the
\* translated code: 1006 for ECONNRESET, 1001 for ETIMEDOUT, 1011 for every
\* other error (the handshake-phase handler being still registered).
C15_ErrorTranslated ==
  \A r \in DOMAIN relay :
    LET ev == relay[r].targetError IN
    (ev # <<>> /\ ev[2]) =>
       /\ Len(relay[r].cCloseCalls) > ev[3]
       /\ relay[r].cCloseCalls[ev[3] + 1][1] = TranslatedCode(ev[1])

\* C16: an outbound error of a session not yet upgraded that is neither
\* authentication-class nor connection-class is retried while attempts
\* remain; the session fails with 502 only when none remain.
C16_OtherErrorRetried ==
  (obs.only = "other") =>
     (socket.written # <<>> =>
        socket.written = <<502>> /\ Len(att) = maxRetries + 1)

\* C17: after the inbound socket raised an error while the session was
\* connecting no outbound attempt is started any more and no attempt is left
\* in flight.
C17_SocketErrorAbandonsRetries ==
  socket.erred =>
     /\ obs.calls = socket.callsAtError
     /\ \A a \in DOMAIN att :
          att[a].connectionClosed \/ att[a].ws \notin {"CONNECTING", "OPEN"}

\* C18: after the inbound socket raised an error while the session was
\* connecting no status line is written to it and it is never upgraded.
C18_NothingWrittenAfterSocketError ==
  socket.erred => (socket.written = <<>> /\ socket.upgraded = 0)

\* An event of attempt a arrives after a handler of a scheduled the next try.
StaleEvent(a) ==
  /\ att[a].retried
  /\ \/ att'[a].injected # att[a].injected
     \/ att'[a].opened # att[a].opened
     \/ att[a].timer = "armed" /\ att'[a].timer = "fired"
     \/ att[a].ws \in {"CONNECTING", "ABORTED"} /\ att'[a].ws = "CLOSED"

C20_RelayOwnsLifecycle ==
  /\ \A r \in DOMAIN relay : \A i \in DOMAIN relay[r].cCloseCalls :
       relay[r].cCloseCalls[i][2] # "Target server connection error"
  /\ \A a \in DOMAIN att : att[a].isUpgraded =>
       \A i \in DOMAIN att[a].closeCalls : att[a].closeCalls[i] # <<NoCode, "">>
  /\ (socket.upgraded > 0 => socket.written = <<>>)

\* The session has concluded: the inbound socket was upgraded, a status line
\* was written to it, or it raised an error while the session was connecting.
Concluded ==
  phase = "session" /\ (socket.upgraded > 0 \/ socket.written # <<>> \/ socket.erred)

\* C21: once the session has concluded, a retry timer or a connection-timeout
\* timer that fires does nothing: no outbound attempt is started, nothing is
\* written to the inbound socket and the counter, the timers set and the
\* relay stay as they are.
C21_LateTimerIsNoOp ==
  [][Concluded =>
       /\ (obs'.calls # obs.calls =>
              /\ Len(att') = Len(att) /\ socket' = socket
              /\ retries' = retries /\ relay' = relay)
       /\ \A a \in DOMAIN att :
            (att[a].timer = "armed" /\ att'[a].timer = "fired") =>
               /\ socket' = socket /\ retries' = retries
               /\ pending' = pending /\ relay' = relay
               /\ att' = [att EXCEPT ![a].timer = "fired"]]_vars

\* C22: once the session has failed or was upgraded, every outbound
\* connection it opened and did not hand to the relay session has been
\* closed: none is still connecting or open.
C22_AttemptsReleased ==
  (phase = "session" /\ (socket.written # <<>> \/ socket.upgraded > 0)) =>
     \A a \in DOMAIN att :
       att[a].clientWs = 0 => att[a].ws \notin {"CONNECTING", "OPEN"}

\* C23: the attempt counter stays between 0 and maxRetries and never
\* decreases, and the attempts started so far number at most counter + 1,
\* whatever timeouts, retryable errors and stale events the session meets.
C23_CounterBounds ==
  /\ [](retries \in 0..maxRetries)
  /\ [](obs.calls <= retries + 1)
  /\ [](Len(att) <= obs.calls)
  /\ [][retries' >= retries]_vars

\* The budget was used up by a timeout and the retry it scheduled has run,
\* and an event of the abandoned attempt arrived afterwards.
C23_Witness ==
  /\ retries = maxRetries /\ obs.calls = maxRetries + 1
  /\ Len(att) = 2 /\ att[1].retried /\ att[1].injected > 0

\* C24: backoff is linear: the step that schedules the k-th retry of a
\* session, after a timeout, an outbound error or an exception of
\* attemptConnection, sets a timer of k times retryDelay, and no timer is
\* ever set with zero delay or with the delay of another retry.
C24_LinearBackoff ==
  /\ [][retries' # retries =>
          /\ retries' = retries + 1
          /\ pending' # <<>>
          /\ Last(pending') = retries'
          /\ \/ pending' = Append(pending, retries')
             \/ \E i \in DOMAIN pending : pending' = Append(RemoveAt(pending, i), retries')]_vars
  /\ [][\A i \in DOMAIN pending' :
          pending'[i] \in 1..maxRetries
            /\ (retries' = retries /\ Len(pending') >= Len(pending)
                  => pending' = pending)]_vars

\* The first attempt timed out and the second failed with a retryable
\* error: the timer of the second retry is set to twice retryDelay.
C24_Witness ==
  /\ retries = 2 /\ pending = <<2>>
  /\ Len(att) = 2 /\ att[1].timer = "fired" /\ att[1].retried
  /\ att[2].failure = "conn" /\ att[2].retried

\* C25: the retries of a session are capped by the maxRetries value the
\* configuration gives, 0 included: the counter never exceeds it and at most
\* that many attempts follow the first.
C25_ConfiguredCap ==
  /\ retries <= obs.cfg
  /\ obs.calls <= obs.cfg + 1

\* C26: over the life of a session at most one status line is written to
\* the inbound socket, and a session never both upgrades the socket and
\* writes a status line.
C26_OneOutcome ==
  /\ Len(socket.written) <= 1
  /\ ~(socket.upgraded > 0 /\ socket.written # <<>>)

\* C27: a message that arrives while the destination side is not open is
\* dropped and nothing else changes: the counters, the close calls, the
\* active flag, both connections and the process stay as they are.
C27_DroppedWhenNotOpen ==
  [][\A r \in DOMAIN relay :
       LET R == relay[r] IN
       /\ (Len(relay'[r].inClient) > Len(R.inClient) /\ ~IsOpen(att[R.t].ws)) =>
             /\ relay'[r] = [R EXCEPT !.inClient = relay'[r].inClient]
             /\ att' = att /\ phase' = phase /\ socket' = socket
       /\ (Len(relay'[r].inTarget) > Len(R.inTarget) /\ ~IsOpen(R.cws)) =>
             /\ relay'[r] = [R EXCEPT !.inTarget = relay'[r].inTarget]
             /\ att' = att /\ phase' = phase /\ socket' = socket]_vars

\* The inbound socket failed under an active session; a message of the
\* target then met the client side closing and was dropped, the session
\* still active.
C27_Witness ==
  \E r \in DOMAIN relay :
    /\ relay[r].isProxyActive /\ relay[r].cws = "CLOSING"
    /\ Len(relay[r].inTarget) = 1
    /\ relay[r].inTarget[1].active /\ ~relay[r].inTarget[1].destOpen
    /\ relay[r].sentClient = <<>> /\ relay[r].targetToClient = 0
    /\ relay[r].cCloseCalls = <<>>

\* The counter a session keeps for each direction: the Proxy class without
\* retries keeps the one messageCount for both.
SentToTargetCounter(R) ==
  IF obs.class = "ProxyNoRetry" THEN R.messageCount ELSE R.clientToTarget
SentToClientCounter(R) ==
  IF obs.class = "ProxyNoRetry" THEN R.messageCount ELSE R.targetToClient

\* C28: the sent-to-target counter of a relay session equals the number of
\* client messages sent to the target, the sent-to-client counter the number
\* of target messages sent to the client; neither counter ever decreases.
C28_CountersMatchSends ==
  /\ [](\A r \in DOMAIN relay :
          /\ SentToTargetCounter(relay[r]) = Len(relay[r].sentTarget)
          /\ SentToClientCounter(relay[r]) = Len(relay[r].sentClient))
  /\ [][\A r \in DOMAIN relay :
          /\ SentToTargetCounter(relay'[r]) >= SentToTargetCounter(relay[r])
          /\ SentToClientCounter(relay'[r]) >= SentToClientCounter(relay[r])]_vars

\* C29: a message that arrives after the relay session has become inactive
\* is forwarded to neither side and changes no counter.
C29_InactiveForwardsNothing ==
  [][\A r \in DOMAIN relay :
       LET R == relay[r] IN
       (/\ ~R.isProxyActive
        /\ \/ Len(relay'[r].inClient) > Len(R.inClient)
           \/ Len(relay'[r].inTarget) > Len(R.inTarget)) =>
          /\ relay'[r].sentTarget = R.sentTarget
          /\ relay'[r].sentClient = R.sentClient
          /\ relay'[r].clientToTarget = R.clientToTarget
          /\ relay'[r].targetToClient = R.targetToClient]_vars

\* A message of the client was forwarded while the session was active; the
\* next one arrived after the session had become inactive and was not.
C29_Witness ==
  \E r \in DOMAIN relay :
    /\ ~relay[r].isProxyActive
    /\ Len(relay[r].inClient) = 2
    /\ relay[r].inClient[1].deliverable /\ ~relay[r].inClient[2].active
    /\ relay[r].sentTarget = <<"m1">> /\ relay[r].clientToTarget = 1

\* C30: over the life of a relay session close is called at most once on
\* its client connection and at most once on its target connection.
C30_NoDoubleClose ==
  \A r \in DOMAIN relay :
    /\ Len(relay[r].cCloseCalls) <= 1
    /\ Len(att[relay[r].t].closeCalls) <= 1

\* The protocol a reference resolver gives: the exact entry, else the entry
\* with the longest prefix of the path, else graphql-transport-ws for a path
\* that contains 'graphql' or 'subscription', else none.
ResolveProtocol(protocolMap, path) ==
  LongestMatchingPrefix(protocolMap,
                        IF \E i \in DOMAIN path : path[i] \in {"/graphql", "/subscription"}
                        THEN <<"graphql-transport-ws">>
                        ELSE Undefined,
                        path)

\* C31: the outbound header map holds an inbound header only if its name is
\* in the allowlist (authorization, cookie, user-agent,
\* sec-websocket-protocol, sec-websocket-extensions, origin), each with its
\* inbound value; every other inbound header is absent, and the version,
\* connection and upgrade headers carry their fixed values.
C31_AllowlistVerbatim ==
  phase # "listening" =>
    /\ \A n \in {"authorization", "cookie", "user-agent", "sec-websocket-protocol",
                 "sec-websocket-extensions", "origin"} :
         obs.inbound[n] # Undefined => obs.headers[n] = obs.inbound[n]
    /\ obs.headers["x-forwarded-for"] = Undefined
    /\ obs.headers["sec-websocket-version"] = <<"13">>
    /\ obs.headers["connection"] = <<"Upgrade">>
    /\ obs.headers["upgrade"] = <<"websocket">>

\* C32: the subprotocol offered on the outbound handshake is the inbound
\* sec-websocket-protocol header whenever the request carries one; the
\* resolver's protocol is offered only when the request carries none; when
\* neither exists no subprotocol is offered.
C32_InboundSubprotocolWins ==
  phase # "listening" =>
    IF obs.inbound["sec-websocket-protocol"] # Undefined
    THEN obs.offered = obs.inbound["sec-websocket-protocol"]
    ELSE IF obs.class = "WebSocketProxy" /\ Truthy(ResolveProtocol(obs.protocolMap, obs.path))
    THEN obs.offered = ResolveProtocol(obs.protocolMap, obs.path)
    ELSE obs.offered = Undefined

\* C33: for every protocol map and path the resolver returns the protocol
\* of the exact entry, else of the longest entry that is a literal prefix of
\* the path, else graphql-transport-ws when the path contains 'graphql' or
\* 'subscription', else none: the heuristic is not applied when a
\* configured entry matches.
C33_ResolveProtocol ==
  (phase # "listening" /\ obs.class = "WebSocketProxy") =>
     obs.protocol = ResolveProtocol(obs.protocolMap, obs.path)

\* With the protocol map {"/a": graphql-ws}, the path /a/graphql (which
\* contains 'graphql') was resolved to graphql-ws, not to the heuristic's
\* protocol.
C33_Witness ==
  /\ phase = "session"
  /\ obs.class = "WebSocketProxy"
  /\ obs.protocolMap = << <<<<"/a">>, <<"graphql-ws">>>> >>
  /\ obs.path = <<"/a", "/graphql">>
  /\ obs.protocol = <<"graphql-ws">>

\* C34: sessions are independent: an event of one session leaves the other
\* session's attempt counter, flags, connections, timers and message
\* counters unchanged, and changes neither the route table nor the
\* configuration.
C34_SessionsIndependent ==
  [][/\ obs'.last = 1 => obs'.other = obs.other
     /\ obs'.last = 2 => <<phase, retries, pending, att, socket, relay>>' =
                         <<phase, retries, pending, att, socket, relay>>
     /\ obs'.routes = obs.routes
     /\ maxRetries' = maxRetries]_vars

\* C35: in the simple token proxy a client connection whose URL carries no
\* token is closed with code 4001 and no connection to the target is ever
\* opened for it; for a connection with a token the connection_init message
\* is sent to the target on open, before any client message is forwarded.
C35_TokenGate ==
  /\ (phase # "listening" /\ obs.token = Undefined) =>
        /\ att = <<>>
        /\ Len(relay[1].cCloseCalls) = 1
        /\ relay[1].cCloseCalls[1][1] = 4001
  /\ (phase # "listening" /\ obs.token \notin {Undefined, <<>>}) =>
        /\ att # <<>>
        /\ att[1].opened => att[1].sentTarget # <<>>
        /\ att[1].sentTarget # <<>> =>
              /\ att[1].opened
              /\ att[1].sentTarget[1].data = "{\"type\":\"connection_init\"}"
        /\ \A k \in DOMAIN att[1].sentTarget :
              k > 1 => att[1].sentTarget[k].data \in {"m1", "m2"}

\* A client with a token sent m1 while the target was connecting (dropped)
\* and m2 after it opened: the target got connection_init, then m2.
C35_Witness ==
  /\ phase = "session"
  /\ obs.token = <<"t1">>
  /\ relay[1].early = 1
  /\ Len(att[1].sentTarget) = 2
  /\ att[1].sentTarget[1].data = "{\"type\":\"connection_init\"}"
  /\ att[1].sentTarget[2].data = "m2"

\* C36: for every configuration record passed to buildTargetUrls,
\* httpTarget and wsTarget are both null exactly when no domain is
\* configured, and otherwise both built from that domain with matching
\* security: https and wss when secure is true, http and ws when it is
\* false; when loading or parsing the file fails, the result is the defaults
\* with both targets null.
C36_TargetsMatch ==
  phase = "loaded" =>
    LET r == obs.result
        d == r.config.domain
        noDomain == d \in {"undefined", "null", ""}
    IN  /\ (r.httpTarget = <<"null">>) <=> noDomain
        /\ (r.wsTarget = <<"null">>) <=> noDomain
        /\ ~noDomain =>
             \/ r.httpTarget = <<"https", "://", d>> /\ r.wsTarget = <<"wss", "://", d>>
             \/ r.httpTarget = <<"http", "://", d>> /\ r.wsTarget = <<"ws", "://", d>>
        /\ (~noDomain /\ r.config.secure = "true") => r.wsTarget = <<"wss", "://", d>>
        /\ (~noDomain /\ r.config.secure = "false") => r.wsTarget = <<"ws", "://", d>>
        /\ obs.file # "parsed" =>
             /\ r.config.port = "8080"
             /\ r.config.domain = "null"
             /\ r.config.secure = "true"
             /\ r.config.connectionTimeout = "15000"
             /\ r.httpTarget = <<"null">>
             /\ r.wsTarget = <<"null">>

\* A file that names a domain and leaves secure out was loaded: the default
\* secure: true gave https and wss targets for that domain.
C36_Witness ==
  /\ phase = "loaded"
  /\ obs.file = "parsed"
  /\ obs.config.domain = "api.aion.to"
  /\ obs.config.secure = "undefined"
  /\ obs.result.httpTarget = <<"https", "://", "api.aion.to">>
  /\ obs.result.wsTarget = <<"wss", "://", "api.aion.to">>

====
